---- MODULE Spec2Model ----
(***************************************************************************)
(* Glance: face authentication for Linux.                                  *)
(*                                                                         *)
(* The module models the authenticator (pam-glance): the PAM entry point   *)
(* of lib.rs, the supervised worker of auth.rs, the IR emitter controller  *)
(* of ir_emitter.rs and the template loader and matcher of face.rs.        *)
(*                                                                         *)
(* Time is a discrete clock.  One tick is 500 ms, the grace period that    *)
(* authenticate adds to the configured timeout.  Distances between         *)
(* embeddings are integers in units of 0.05, so that the default           *)
(* tolerances 0.45 and 0.50 are 9 and 10 and the confidence 1.0 is 20.     *)
(***************************************************************************)
EXTENDS Integers, Sequences, FiniteSets, TLC

(***************************************************************************)
(* Bounds of the model.                                                    *)
(***************************************************************************)
\* The clock stops at MaxTime ticks.
MaxTime == 3
\* Length of an embedding (128 in dlib, scaled down).
EncLen == 1
\* AuthConfig.max_frames_per_camera of the modelled configurations.
MaxFramesPerCamera == 2
\* The longest list of users handed to the matcher taken alone.
MaxUsers == 2
\* The templates the enroller saves are numbered 1..MaxVersions.
MaxVersions == 2
\* The clock of the store operations stops at MaxStoreTime.
MaxStoreTime == 1
\* The stability counters of the labels stop at MaxStable.
MaxStable == 3
\* Previews started by the enroller, and the largest frame_count of its
\* window.
MaxPreviews == 2
MaxFrames == 10
\* Video nodes /dev/video0 .. /dev/video(MaxNodes - 1), and the largest
\* one-digit value of a sysfs index attribute.
MaxNodes == 2
MaxIndex == 2
\* The legacy facerec directories load_face_data looks into.
MaxLegacyDirs == 2
\* Pairs of processes of the emitter tool that other programs started.
MaxOrphans == 2
\* The authenticate calls made in one process.
MaxCalls == 2
\* window.rs: required_good_frames, and the capacity of the frame channel.
RequiredGoodFrames == 5
ChannelCapacity == 2

(***************************************************************************)
(* Program constants.                                                      *)
(***************************************************************************)
\* auth.rs:123, Duration::from_millis(500): one tick.
GraceTicks == 1
\* lib.rs:97, PamConfig::default timeout 5.0 s.
PamDefaultTimeout == 10
\* auth.rs:288, consecutive_failures >= 5.
MaxConsecutiveFailures == 5
\* auth.rs:52-53, ir_tolerance 0.45 and rgb_tolerance 0.50.
IrTolerance == 9
RgbTolerance == 10
\* auth.rs:335, confidence: 1.0 - distance.
ConfidenceOne == 20
\* face.rs:98, f64::MAX: larger than every distance of the model.
F64Max == 1000000

(***************************************************************************)
(* Embeddings and the distance between them.                               *)
(***************************************************************************)
Vec(c) == [i \in 1..EncLen |-> c]
\* An embedding of the wrong length: FaceEncoding::from_vec rejects it.
BadVec(c) == [i \in 1..(EncLen + 1) |-> c]

Abs(x) == IF x < 0 THEN -x ELSE x

RECURSIVE SumAbs(_, _, _)
SumAbs(a, b, i) ==
    IF i = 0 THEN 0 ELSE Abs(a[i] - b[i]) + SumAbs(a, b, i - 1)

\* FaceEncoding::from_vec succeeds on vectors of the embedding length only.
FromVecOk(v) == Len(v) = EncLen

\* FaceEncoding::distance (equal to the Euclidean distance on the
\* constant vectors the model uses when EncLen = 1).
Distance(a, b) == SumAbs(a, b, EncLen)

(***************************************************************************)
(* face.rs: compare_face and match_face.                                   *)
(***************************************************************************)
RECURSIVE MinDistance(_, _, _)
MinDistance(detected, stored, min_distance) ==
    IF stored = <<>> THEN min_distance
    ELSE LET stored_vec == Head(stored)
             next == IF FromVecOk(stored_vec)
                        /\ Distance(detected, stored_vec) < min_distance
                     THEN Distance(detected, stored_vec)
                     ELSE min_distance
         IN MinDistance(detected, Tail(stored), next)

NoneVal == [some |-> FALSE, username |-> <<>>, distance |-> 0]
SomeMatch(u, d) == [some |-> TRUE, username |-> u, distance |-> d]

\* The mutant accepts every stored set, whatever the distance.
CompareFace_NoTolerance(detected, stored, tolerance) ==
    IF stored = <<>> THEN NoneVal
    ELSE SomeMatch(<<>>, MinDistance(detected, stored, F64Max))

CompareFace(detected, stored, tolerance) ==
    IF stored = <<>> THEN NoneVal
    ELSE LET min_distance == MinDistance(detected, stored, F64Max)
         IN IF min_distance <= tolerance
            THEN SomeMatch(<<>>, min_distance)
            ELSE NoneVal

RECURSIVE MatchFaceFrom(_, _, _, _)
MatchFaceFrom(detected, users_faces, tolerance, best_match) ==
    IF users_faces = <<>> THEN best_match
    ELSE LET uf == Head(users_faces)
             c == CompareFace(detected, uf.encodings, tolerance)
             next == IF c.some
                        /\ (~best_match.some \/ c.distance < best_match.distance)
                     THEN SomeMatch(uf.username, c.distance)
                     ELSE best_match
         IN MatchFaceFrom(detected, Tail(users_faces), tolerance, next)

RECURSIVE MatchFaceLastWins(_, _, _, _)
MatchFaceLastWins(detected, users_faces, tolerance, best_match) ==
    IF users_faces = <<>> THEN best_match
    ELSE LET uf == Head(users_faces)
             c == CompareFace(detected, uf.encodings, tolerance)
             next == IF c.some
                        /\ (~best_match.some \/ c.distance <= best_match.distance)
                     THEN SomeMatch(uf.username, c.distance)
                     ELSE best_match
         IN MatchFaceLastWins(detected, Tail(users_faces), tolerance, next)

\* The mutant replaces the strict comparison by <=: on equal distances
\* the last user wins.
MatchFace_LastWins(detected, users_faces, tolerance) ==
    MatchFaceLastWins(detected, users_faces, tolerance, NoneVal)

MatchFace(detected, users_faces, tolerance) ==
    MatchFaceFrom(detected, users_faces, tolerance, NoneVal)

(***************************************************************************)
(* The template store as the authenticator reads it.                       *)
(*                                                                         *)
(* A user name and a file name are sequences of tokens: the file of user   *)
(* <<"alice">> is <<"alice", ".json">>, written "alice.json".  A user      *)
(* name may itself end in the token "_face".                               *)
(***************************************************************************)
Alice == <<"alice">>
Bob == <<"bob">>
AliceFace == <<"alice", "_face">>

JsonSuffix == <<".json">>
FaceJsonSuffix == <<"_face", ".json">>

EndsWith(name, suffix) ==
    /\ Len(name) >= Len(suffix)
    /\ SubSeq(name, Len(name) - Len(suffix) + 1, Len(name)) = suffix

StripSuffix(name, suffix) == SubSeq(name, 1, Len(name) - Len(suffix))

\* One element of a JSON "encodings" array.
NestedEnc(e, ct) ==
    [shape |-> "nested", encoding |-> e, pose |-> "center", camera_type |-> ct]
FlatEnc(e) ==
    [shape |-> "flat", encoding |-> e, pose |-> "", camera_type |-> ""]

\* A template file as the enroller writes it: ir_captured and rgb_captured
\* as save_captured_face sets them, the timestamps in ticks of the clock.
TemplateFile(name, owner, legacy, ir, rgb) ==
    [name |-> name, kind |-> "template", username |-> owner,
     encodings |-> legacy, ir_encodings |-> ir, rgb_encodings |-> rgb,
     ir_captured |-> ir # <<>>, rgb_captured |-> rgb # <<>>,
     created_at |-> 0, updated_at |-> 0]
\* The records of the three buckets of a template file.
AllRecords(f) == f.encodings \o f.ir_encodings \o f.rgb_encodings
CorruptFile(name) ==
    [name |-> name, kind |-> "corrupt", username |-> <<>>,
     encodings |-> <<>>, ir_encodings |-> <<>>, rgb_encodings |-> <<>>,
     ir_captured |-> FALSE, rgb_captured |-> FALSE,
     created_at |-> 0, updated_at |-> 0]

NoConfig == [kind |-> "absent", registered |-> <<>>]
CorruptConfig == [kind |-> "corrupt", registered |-> <<>>]

Dir(files) == [exists |-> TRUE, config |-> NoConfig, files |-> files]
DirMissing == [exists |-> FALSE, config |-> NoConfig, files |-> <<>>]

RECURSIVE MapEncodings(_, _)
\* The loop of load_user_faces over the "encodings" array; in config.json
\* (nestedToo = FALSE) only plain arrays are taken.
MapEncodings(arr, nestedToo) ==
    IF arr = <<>> THEN <<>>
    ELSE LET enc == Head(arr)
             take == /\ enc.encoding # <<>>
                     /\ (enc.shape = "flat" \/ (nestedToo /\ enc.shape = "nested"))
         IN (IF take THEN <<enc.encoding>> ELSE <<>>)
            \o MapEncodings(Tail(arr), nestedToo)

HasFile(dir, name) == \E i \in 1..Len(dir.files) : dir.files[i].name = name
FileNamed(dir, name) ==
    dir.files[CHOOSE i \in 1..Len(dir.files) : dir.files[i].name = name]

RECURSIVE RegisteredOf(_, _)
RegisteredOf(registered, username) ==
    IF registered = <<>> THEN <<>>
    ELSE IF Head(registered).username = username
         THEN MapEncodings(Head(registered).encodings, FALSE)
         ELSE RegisteredOf(Tail(registered), username)

Loaded(encs) == [ok |-> TRUE, encodings |-> encs]
LoadErr == [ok |-> FALSE, encodings |-> <<>>]

\* The mutant reads the three buckets of the template.
LoadUserFaces_AllBuckets(dir, username) ==
    LET p1 == username \o FaceJsonSuffix
        p2 == username \o JsonSuffix
        f == IF HasFile(dir, p1) THEN FileNamed(dir, p1) ELSE FileNamed(dir, p2)
    IN IF ~HasFile(dir, p1) /\ ~HasFile(dir, p2) THEN Loaded(<<>>)
       ELSE IF f.kind = "corrupt" THEN LoadErr
       ELSE Loaded(MapEncodings(f.encodings \o f.ir_encodings \o f.rgb_encodings, TRUE))

\* face.rs load_user_faces: <username>_face.json is tried before
\* <username>.json, and only the "encodings" array of the file is read.
LoadUserFaces(dir, username) ==
    LET p1 == username \o FaceJsonSuffix
        p2 == username \o JsonSuffix
        found == HasFile(dir, p1) \/ HasFile(dir, p2)
        f == IF HasFile(dir, p1) THEN FileNamed(dir, p1) ELSE FileNamed(dir, p2)
    IN IF ~found
       THEN IF dir.config.kind = "absent" THEN Loaded(<<>>)
            ELSE IF dir.config.kind = "corrupt" THEN LoadErr
            ELSE Loaded(RegisteredOf(dir.config.registered, username))
       ELSE IF f.kind = "corrupt" THEN LoadErr
       ELSE Loaded(MapEncodings(f.encodings, TRUE))

HasUser(all_faces, username) ==
    \E i \in 1..Len(all_faces) : all_faces[i].username = username

UserFaces(u, encs) == [username |-> u, encodings |-> encs]

RECURSIVE RegisteredFaces(_)
\* load_all_faces, first part: the registered_faces object of config.json.
RegisteredFaces(registered) ==
    IF registered = <<>> THEN <<>>
    ELSE LET user_encodings == MapEncodings(Head(registered).encodings, FALSE)
         IN (IF user_encodings # <<>>
             THEN <<UserFaces(Head(registered).username, user_encodings)>>
             ELSE <<>>)
            \o RegisteredFaces(Tail(registered))

\* The user name load_all_faces derives from a directory entry; <<>> when
\* the entry is skipped.
UsernameOfEntry(name) ==
    IF EndsWith(name, FaceJsonSuffix) THEN StripSuffix(name, FaceJsonSuffix)
    ELSE IF EndsWith(name, JsonSuffix) /\ name # <<"config", ".json">>
         THEN StripSuffix(name, JsonSuffix)
         ELSE <<>>

RECURSIVE ReadDirFaces(_, _, _)
\* load_all_faces, second part: the loop over read_dir.
ReadDirFaces(dir, entries, all_faces) ==
    IF entries = <<>> THEN all_faces
    ELSE LET username == UsernameOfEntry(Head(entries).name)
             r == LoadUserFaces(dir, username)
             next == IF username = <<>> \/ HasUser(all_faces, username)
                     THEN all_faces
                     ELSE IF r.ok /\ r.encodings # <<>>
                          THEN Append(all_faces, UserFaces(username, r.encodings))
                          ELSE all_faces
         IN ReadDirFaces(dir, Tail(entries), next)

FacesOk(faces) == [ok |-> TRUE, faces |-> faces]
FacesErr == [ok |-> FALSE, faces |-> <<>>]

LoadAllFaces(dir) ==
    IF dir.config.kind = "corrupt" THEN FacesErr
    ELSE FacesOk(ReadDirFaces(dir, dir.files, RegisteredFaces(dir.config.registered)))

\* The directories load_registered_faces looks into.
SystemDir == "/var/lib/glance"
XdgDir == "~/.local/share/glance"
UserConfigDir == "~/.config/glance"
CustomDir == "/srv/faces"
DirNames == {SystemDir, XdgDir, UserConfigDir, CustomDir}

\* The mutant stops at the first directory that exists, empty or not.
LoadRegisteredFaces_FirstDirOnly(data_dir, files) ==
    IF files[data_dir].exists THEN LoadAllFaces(files[data_dir])
    ELSE FacesOk(<<>>)

\* auth.rs load_registered_faces (HOME is set).
LoadRegisteredFaces(data_dir, files) ==
    LET d == LoadAllFaces(files[data_dir])
        x == LoadAllFaces(files[XdgDir])
        c == LoadAllFaces(files[UserConfigDir])
    IN IF files[data_dir].exists /\ ~d.ok THEN FacesErr
       ELSE IF files[data_dir].exists /\ d.faces # <<>> THEN d
       ELSE IF files[XdgDir].exists /\ ~x.ok THEN FacesErr
       ELSE IF files[XdgDir].exists /\ x.faces # <<>> THEN x
       ELSE IF files[UserConfigDir].exists /\ ~c.ok THEN FacesErr
       ELSE IF files[UserConfigDir].exists /\ c.faces # <<>> THEN c
       ELSE IF files[SystemDir].exists THEN LoadAllFaces(files[SystemDir])
       ELSE FacesOk(<<>>)

(***************************************************************************)
(* Cameras.                                                                *)
(***************************************************************************)
Cam(id, kind) == [device_id |-> id, camera_type |-> kind]
NoCamera == [device_id |-> -1, camera_type |-> "none", is_ir |-> FALSE]

RECURSIVE AscendingIds(_)
AscendingIds(S) ==
    IF S = {} THEN <<>>
    ELSE LET c == CHOOSE x \in S : \A y \in S : x.device_id <= y.device_id
         IN <<c>> \o AscendingIds(S \ {c})

OfKind(cameras, kind) == SelectSeq(cameras, LAMBDA c : c.camera_type = kind)

\* camera.rs detect_cameras_fast (not in the sources): the capture nodes of
\* sysfs, IR first, then RGB, then Unknown, ascending device id in a kind.
DetectCamerasFast(sysfs) ==
    LET all == AscendingIds(sysfs)
    IN OfKind(all, "Infrared") \o OfKind(all, "Rgb") \o OfKind(all, "Unknown")

\* The mutant ignores prefer_ir.
SortedCameras_IrAlways(cameras, prefer_ir) ==
    OfKind(cameras, "Infrared") \o OfKind(cameras, "Rgb") \o OfKind(cameras, "Unknown")

\* auth.rs 214-226: preferred kind first, then the other, then Unknown.
SortedCameras(cameras, prefer_ir) ==
    IF prefer_ir
    THEN OfKind(cameras, "Infrared") \o OfKind(cameras, "Rgb")
         \o OfKind(cameras, "Unknown")
    ELSE OfKind(cameras, "Rgb") \o OfKind(cameras, "Infrared")
         \o OfKind(cameras, "Unknown")

\* SmartCamera::open_direct (not in the sources): the handle of the camera,
\* is_ir taken from the kind of the CameraInfo as SmartCamera::open does.
OpenDirect(cam_info) ==
    [device_id |-> cam_info.device_id, camera_type |-> cam_info.camera_type,
     is_ir |-> cam_info.camera_type = "Infrared"]

(***************************************************************************)
(* ir_emitter.rs: the IR emitter controller.  A process of the tool is a   *)
(* record of its pid and the device it was started for.                    *)
(***************************************************************************)
IrDevice == "/dev/video2"
EmitterPid == 1
Proc(pid, device) == [pid |-> pid, device |-> device]

IrEmitterNew(device) == [device |-> device, enabled |-> FALSE, child_process |-> 0]
NoEmitter == [some |-> FALSE, emitter |-> IrEmitterNew(IrDevice)]
SomeEmitter(e) == [some |-> TRUE, emitter |-> e]

\* What enable finds: the tool is not installed, spawn fails, or spawn works.
EmitterEnvs == {"not_installed", "spawn_failed", "spawned"}

\* The mutant reports a tool that is missing or does not start as an error.
IrEmitterEnable_ErrWithoutTool(e, env, ps) ==
    IF env = "spawned"
    THEN [ok |-> TRUE,
          emitter |-> [e EXCEPT !.child_process = EmitterPid, !.enabled = TRUE],
          procs |-> ps \cup {Proc(EmitterPid, e.device)}]
    ELSE [ok |-> FALSE, emitter |-> e, procs |-> ps]

\* enable 90-125: every path returns Ok(()).
IrEmitterEnable(e, env, ps) ==
    IF env = "spawned"
    THEN [ok |-> TRUE,
          emitter |-> [e EXCEPT !.child_process = EmitterPid, !.enabled = TRUE],
          procs |-> ps \cup {Proc(EmitterPid, e.device)}]
    ELSE [ok |-> TRUE, emitter |-> e, procs |-> ps]

\* The mutant never reports a running emitter: the handle is not kept.
IsRunning_Never(e) == FALSE

IsRunning(e) == e.enabled /\ e.child_process # 0

\* The mutant clears the fields and leaves the processes alone.
IrEmitterDisable_NoKill(e, ps) ==
    [emitter |-> [e EXCEPT !.child_process = 0, !.enabled = FALSE], procs |-> ps]

\* disable: kill and reap the child, then pkill -f "<tool>.*<device>".
IrEmitterDisable(e, ps) ==
    IF ~e.enabled THEN [emitter |-> e, procs |-> ps]
    ELSE LET reaped == {p \in ps : p.pid # e.child_process}
         IN [emitter |-> [e EXCEPT !.child_process = 0, !.enabled = FALSE],
             procs |-> {p \in reaped : p.device # e.device}]

\* The mutant sweeps nothing.
PkillEmitters_Nothing(ps) == ps

\* pkill -f linux-enable-ir-emitter: every process of the tool.
PkillEmitters(ps) == {}

\* The mutant drops the value and leaves the child running.
IrEmitterDrop_Forgets(e, ps) == [emitter |-> e, procs |-> ps]

\* Drop for IrEmitter 187-193: disable when enabled.
IrEmitterDrop(e, ps) ==
    IF e.enabled THEN IrEmitterDisable(e, ps) ELSE [emitter |-> e, procs |-> ps]

\* Processes of the tool that some other program started.
OrphanProcs ==
    UNION { {Proc(EmitterPid + 2 * i - 1, IrDevice),
             Proc(EmitterPid + 2 * i, "/dev/video0")} : i \in 1..MaxOrphans }

\* The first authenticate call of the process: no earlier worker.
NoneAbandoned == [calls |-> 1, held |-> {}]

NoEmitterCall ==
    [op |-> "none", before |-> IrEmitterNew(IrDevice), procsBefore |-> {},
     live |-> FALSE, spawned |-> FALSE]

\* A resource event of the worker: the emitter switched on or off, a camera
\* opened or released.
Ev(e, id) == [ev |-> e, id |-> id]

(***************************************************************************)
(* AuthResult.                                                             *)
(***************************************************************************)
Result(kind, msg) ==
    [kind |-> kind, username |-> <<>>, confidence |-> 0, camera_type |-> "none",
     msg |-> msg]
NoResult == Result("none", "")
Success(username, distance, camera_type) ==
    [kind |-> "Success", username |-> username,
     confidence |-> ConfidenceOne - distance, camera_type |-> camera_type,
     msg |-> ""]

(***************************************************************************)
(* lib.rs: the arguments of the PAM module and the mapping of the result.  *)
(***************************************************************************)
Arg(k, n, s) == [k |-> k, utf8 |-> TRUE, parses |-> TRUE, n |-> n, s |-> s]
TimeoutArg(n) == Arg("timeout=", n, "")
BadTimeoutArg == [k |-> "timeout=", utf8 |-> TRUE, parses |-> FALSE, n |-> 0, s |-> ""]
NonUtf8Arg == [k |-> "", utf8 |-> FALSE, parses |-> TRUE, n |-> 0, s |-> ""]
DataDirArg(d) == Arg("data_dir=", 0, d)
ConfigArg(f) == Arg("config=", 0, f)
FlagArg(k) == Arg(k, 0, "")

PamConfigDefault ==
    [timeout |-> PamDefaultTimeout, prefer_ir |-> TRUE, data_dir |-> SystemDir,
     config_file |-> "~/.config/glance/config.json", debug |-> FALSE]

ParsedOk(c) == [ok |-> TRUE, config |-> c]
ParsedErr == [ok |-> FALSE, config |-> PamConfigDefault]

RECURSIVE ParseArgsFrom(_, _)
ParseArgsFrom(as, config) ==
    IF as = <<>> THEN ParsedOk(config)
    ELSE LET a == Head(as)
         IN IF ~a.utf8 THEN ParsedErr
            ELSE IF a.k = "timeout="
            THEN IF a.parses
                 THEN ParseArgsFrom(Tail(as), [config EXCEPT !.timeout = a.n])
                 ELSE ParsedErr
            ELSE IF a.k = "data_dir="
            THEN ParseArgsFrom(Tail(as), [config EXCEPT !.data_dir = a.s])
            ELSE IF a.k = "config="
            THEN ParseArgsFrom(Tail(as), [config EXCEPT !.config_file = a.s])
            ELSE IF a.k = "prefer_ir"
            THEN ParseArgsFrom(Tail(as), [config EXCEPT !.prefer_ir = TRUE])
            ELSE IF a.k = "prefer_rgb"
            THEN ParseArgsFrom(Tail(as), [config EXCEPT !.prefer_ir = FALSE])
            ELSE IF a.k = "debug"
            THEN ParseArgsFrom(Tail(as), [config EXCEPT !.debug = TRUE])
            ELSE ParseArgsFrom(Tail(as), config)

ParseArgs(as) == ParseArgsFrom(as, PamConfigDefault)

\* The mutant lets a NoMatch through as success.
PamCode_NoMatchSucceeds(result) ==
    IF result.kind \in {"Success", "NoMatch"} THEN "PAM_SUCCESS" ELSE "PAM_AUTH_ERR"

\* lib.rs 47-69.
PamCode(result) ==
    IF result.kind = "Success" THEN "PAM_SUCCESS"
    ELSE IF result.kind = "NoFaceDetected" THEN "PAM_AUTH_ERR"
    ELSE IF result.kind = "NoMatch" THEN "PAM_AUTH_ERR"
    ELSE IF result.kind = "Timeout" THEN "PAM_AUTH_ERR"
    ELSE "PAM_AUTH_ERR"

(***************************************************************************)
(* State.                                                                  *)
(***************************************************************************)
VARIABLES
    \* the environment of one PAM call
    args,               \* the module arguments of the PAM configuration line
    files,              \* the directories of the template store
    sysfs,              \* the capture nodes of /sys/class/video4linux
    loaded,             \* what AuthConfig::load returns
    models_present,     \* the two dlib model files exist in models_dir
    \* lib.rs PamGlance::authenticate
    pamPc, pamRet, userResolved, config,
    \* the clock
    now, retTime,
    \* auth.rs authenticate (the supervisor)
    supPc, pending, authResult, chan, sweeps,
    \* auth.rs authenticate_inner (the worker)
    wpc, start_time, ir_emitter, procs, registered_faces, sorted_cameras,
    camIdx, camera, frames, consecutive_failures, wResult,
    \* history: the resource events of the worker and the probe that matched
    events, matchedProbe, started, endedAt,
    \* inputs and result of the matcher taken alone
    mProbe, mUsers, mTolerance, mResult, mPc,
    \* storage.rs: the save in progress and what the readers last saw
    save, loadObs, authObs,
    \* window.rs: the fields of GlanceWindow, the camera previews started
    \* (producer thread, channel, consumer future), the hardware, history
    win, previews, hw, hist,
    \* window.rs: the debounced labels of the capture page, and the last call
    \* of set_capture_status or update_guidance with the state it found
    ui, uiObs,
    \* camera.rs of both crates: the video nodes of the machine, and the last
    \* enumeration with what it returned
    nodes, found,
    \* auth.rs, config.rs: the configuration files of the machine with HOME,
    \* and the last configuration built from them
    cfgEnv, cfgObs,
    \* storage.rs: the file of the user in each legacy facerec directory, and
    \* the last load_face_data with the state it found
    legacyFiles, migObs,
    \* ir_emitter.rs: an IrEmitter value used on its own, the processes of
    \* the tool, and the last call made on the value
    emObj, emProcs, emObs,
    \* window.rs: frame_count of process_frame, modulo 2
    frame_parity,
    \* auth.rs: the authenticate calls made so far in the process and the
    \* cameras held by the workers they abandoned
    abandoned

envVars == <<args, files, sysfs, loaded, models_present>>
pamVars == <<pamPc, pamRet, userResolved, config>>
supVars == <<supPc, pending, authResult, chan, sweeps, retTime>>
camVars == <<sorted_cameras, camIdx, camera, frames, consecutive_failures>>
wrkVars == <<wpc, start_time, ir_emitter, procs, registered_faces, camVars,
             wResult, events, matchedProbe, started, endedAt>>
matchVars == <<mProbe, mUsers, mTolerance, mResult, mPc>>
storeVars == <<save, loadObs, authObs>>
enrVars == <<win, previews, hw, hist>>
detVars == <<nodes, found>>
cfgVars == <<cfgEnv, cfgObs>>
migVars == <<legacyFiles, migObs>>
emVars == <<emObj, emProcs, emObs>>
lateVars == <<migVars, emVars, frame_parity, abandoned>>
auxVars == <<ui, uiObs, detVars, cfgVars, lateVars>>
vars == <<envVars, pamVars, now, supVars, wrkVars, matchVars, storeVars, enrVars,
          auxVars>>

(***************************************************************************)
(* The environments explored.                                              *)
(***************************************************************************)
AliceEnc == Vec(0)
BobEnc == Vec(20)
AliceFaceEnc == Vec(30)

\* alice.json as the enroller writes it after an IR capture: the IR record
\* and its copy in the legacy bucket.
AliceJson ==
    TemplateFile(Alice \o JsonSuffix, Alice,
                 <<NestedEnc(AliceEnc, "")>>, <<NestedEnc(AliceEnc, "ir")>>, <<>>)
\* alice.json holding the IR record only.
AliceIrOnlyJson ==
    TemplateFile(Alice \o JsonSuffix, Alice, <<>>, <<NestedEnc(AliceEnc, "ir")>>, <<>>)
BobJson ==
    TemplateFile(Bob \o JsonSuffix, Bob,
                 <<NestedEnc(BobEnc, "")>>, <<>>, <<NestedEnc(BobEnc, "rgb")>>)
\* The template of the user named alice_face: its file is alice_face.json.
AliceFaceJson ==
    TemplateFile(AliceFace \o JsonSuffix, AliceFace,
                 <<NestedEnc(AliceFaceEnc, "")>>, <<NestedEnc(AliceFaceEnc, "ir")>>, <<>>)
\* A file of the flat historical schema, one of its vectors too long.
AliceFlatJson ==
    TemplateFile(Alice \o JsonSuffix, Alice,
                 <<FlatEnc(BadVec(5)), FlatEnc(AliceEnc)>>, <<>>, <<>>)

\* The states of /var/lib/glance and of ~/.local/share/glance.
StoreStates ==
    { <<s, DirMissing>> : s \in
        { DirMissing, Dir(<<>>), Dir(<<AliceJson>>), Dir(<<AliceIrOnlyJson>>),
          Dir(<<BobJson>>), Dir(<<BobJson, AliceJson>>), Dir(<<AliceFaceJson>>),
          Dir(<<AliceFlatJson>>),
          [exists |-> TRUE, config |-> CorruptConfig, files |-> <<AliceJson>>] } }
    \cup { <<s, Dir(<<AliceJson>>)>> : s \in {DirMissing, Dir(<<>>), Dir(<<BobJson>>)} }

SysfsStates ==
    { {}, {Cam(2, "Infrared")},
      {Cam(0, "Rgb"), Cam(1, "Unknown"), Cam(2, "Infrared")},
      {Cam(2, "Infrared"), Cam(4, "Infrared")} }

ArgLists ==
    { <<TimeoutArg(1)>>, <<TimeoutArg(0)>>,
      <<FlagArg("prefer_ir"), FlagArg("debug"), FlagArg("prefer_rgb"),
        DataDirArg(XdgDir), ConfigArg("/etc/glance/pam.json")>>,
      <<BadTimeoutArg>>, <<TimeoutArg(1), NonUtf8Arg>>, <<TimeoutArg(-1)>> }

\* The faces of one frame: the embeddings detect_faces returns.
Probes == { Vec(5), Vec(10), Vec(20), Vec(30) }
FrameFaces == { <<>> } \cup { <<p>> : p \in Probes } \cup { <<Vec(20), Vec(5)>> }

NoTarget == [some |-> FALSE, name |-> <<>>]
Target(u) == [some |-> TRUE, name |-> u]

\* AuthConfig::default (auth.rs 44-63) with the fields the files may change.
AuthConfigOf(enable_ir_emitter) ==
    [timeout |-> 6, prefer_ir |-> TRUE, data_dir |-> SystemDir,
     ir_tolerance |-> IrTolerance, rgb_tolerance |-> RgbTolerance,
     target_user |-> NoTarget, enable_ir_emitter |-> enable_ir_emitter,
     ir_device |-> IrDevice, max_frames_per_camera |-> MaxFramesPerCamera]

Empty == [state |-> "empty", result |-> NoResult]
Closed == [state |-> "closed", result |-> NoResult]
Msg(r) == [state |-> "msg", result |-> r]

(***************************************************************************)
(* storage.rs: the template files of the enroller.  The user copy is in    *)
(* dirs::data_dir()/glance, that is ~/.local/share/glance, the mirror in   *)
(* /var/lib/glance.  The legacy facerec directories do not exist.          *)
(***************************************************************************)
UserDataDir == XdgDir

AbsentFile ==
    [name |-> <<>>, kind |-> "absent", username |-> <<>>,
     encodings |-> <<>>, ir_encodings |-> <<>>, rgb_encodings |-> <<>>,
     ir_captured |-> FALSE, rgb_captured |-> FALSE,
     created_at |-> 0, updated_at |-> 0]

\* get_storage_path: <username>.json.
StorageName(username) == username \o JsonSuffix

FileOf(dir, name) == IF HasFile(dir, name) THEN FileNamed(dir, name) ELSE AbsentFile

\* fs::write once it has completed: the file is created or replaced.
WriteFile(dir, f) ==
    [exists |-> TRUE, config |-> dir.config,
     files |-> IF HasFile(dir, f.name)
               THEN [i \in 1..Len(dir.files) |->
                        IF dir.files[i].name = f.name THEN f ELSE dir.files[i]]
               ELSE Append(dir.files, f)]

\* fs::remove_file.
RemoveFile(dir, name) ==
    [dir EXCEPT !.files = SelectSeq(dir.files, LAMBDA f : f.name # name)]

\* serde_json::from_str::<FaceData>: every element of the three buckets
\* must be a FaceEncoding object.
FaceDataParses(f) ==
    /\ f.kind = "template"
    /\ \A i \in 1..Len(AllRecords(f)) : AllRecords(f)[i].shape = "nested"

SomeData(f) == [some |-> TRUE, data |-> f]
NoData == [some |-> FALSE, data |-> AbsentFile]

\* The mutant ignores the system copy.
LoadFaceData_UserOnly(fs, username) ==
    LET u == FileOf(fs[UserDataDir], StorageName(username))
    IN IF u.kind # "absent" /\ FaceDataParses(u) THEN SomeData(u) ELSE NoData

\* storage.rs load_face_data.
LoadFaceData(fs, username) ==
    LET u == FileOf(fs[UserDataDir], StorageName(username))
        sy == FileOf(fs[SystemDir], StorageName(username))
    IN IF u.kind # "absent"
       THEN IF FaceDataParses(u) THEN SomeData(u) ELSE NoData
       ELSE IF sy.kind # "absent"
       THEN IF FaceDataParses(sy) THEN SomeData(sy) ELSE NoData
       ELSE NoData

\* can_write_to_system: /var/lib/glance exists and a test file can be written.
CanWriteToSystem(fs, writable) == fs[SystemDir].exists /\ writable

\* The mutant also removes the system copy.
DeleteFaceData_Both(fs, username) ==
    [fs EXCEPT ![UserDataDir] = RemoveFile(@, StorageName(username)),
               ![SystemDir] = RemoveFile(@, StorageName(username))]

\* storage.rs delete_face_data: the user copy is removed.
DeleteFaceData(fs, username) ==
    [fs EXCEPT ![UserDataDir] = RemoveFile(@, StorageName(username))]

\* storage.rs save_face_data from its call to its return: the user copy is
\* written, then the mirror when the system directory is writable.
SaveFaceData(fs, data, writable) ==
    LET written == [fs EXCEPT ![UserDataDir] = WriteFile(@, data)]
    IN IF CanWriteToSystem(written, writable)
       THEN [written EXCEPT ![SystemDir] = WriteFile(@, data)]
       ELSE written

\* The FaceData the enroller builds (window.rs 1019-1037).
FaceDataOf(username, legacy, ir, rgb) ==
    TemplateFile(StorageName(username), username, legacy, ir, rgb)

\* chrono::Utc::now().
UtcNow == now

\* FaceData::new: both timestamps are the time of the call.
FaceDataNew(username) ==
    [name |-> StorageName(username), kind |-> "template", username |-> username,
     encodings |-> <<>>, ir_encodings |-> <<>>, rgb_encodings |-> <<>>,
     ir_captured |-> FALSE, rgb_captured |-> FALSE,
     created_at |-> UtcNow, updated_at |-> UtcNow]

FaceEncodingOf(c, ct) ==
    [shape |-> "nested", encoding |-> c.encoding, pose |-> c.pose, camera_type |-> ct]

\* FaceData::add_encoding, add_ir_encoding, add_rgb_encoding.
AddEncoding(f, c) ==
    [f EXCEPT !.encodings = Append(@, FaceEncodingOf(c, "")),
              !.updated_at = UtcNow]
AddIrEncoding(f, c) ==
    [f EXCEPT !.ir_encodings = Append(@, FaceEncodingOf(c, "ir")),
              !.ir_captured = TRUE, !.updated_at = UtcNow]
AddRgbEncoding(f, c) ==
    [f EXCEPT !.rgb_encodings = Append(@, FaceEncodingOf(c, "rgb")),
              !.rgb_captured = TRUE, !.updated_at = UtcNow]

RECURSIVE AddEach(_, _, _)
\* The three loops of save_captured_face over the captured (encoding, pose)
\* pairs.
AddEach(f, captured, bucket) ==
    IF captured = <<>> THEN f
    ELSE AddEach(IF bucket = "ir" THEN AddIrEncoding(f, Head(captured))
                 ELSE IF bucket = "rgb" THEN AddRgbEncoding(f, Head(captured))
                 ELSE AddEncoding(f, Head(captured)),
                 Tail(captured), bucket)

\* The mutant keeps the flags the add functions have set.
BuildFaceData_IrAlwaysCaptured(username, legacy, ir, rgb) ==
    LET with_ir == [AddEach(FaceDataNew(username), ir, "ir") EXCEPT
                       !.ir_captured = TRUE]
        with_rgb == [AddEach(with_ir, rgb, "rgb") EXCEPT
                        !.rgb_captured = rgb # <<>>]
    IN AddEach(with_rgb, legacy, "")

\* save_captured_face 1014-1037: a new FaceData for the user, filled from the
\* window's three lists.
BuildFaceData(username, legacy, ir, rgb) ==
    LET with_ir == [AddEach(FaceDataNew(username), ir, "ir") EXCEPT
                       !.ir_captured = ir # <<>>]
        with_rgb == [AddEach(with_ir, rgb, "rgb") EXCEPT
                        !.rgb_captured = rgb # <<>>]
    IN AddEach(with_rgb, legacy, "")

\* The n-th template of alice.
Version(n) ==
    FaceDataOf(Alice, <<NestedEnc(Vec(n), "")>>, <<NestedEnc(Vec(n), "ir")>>, <<>>)

\* The n-th enrollment of alice with an IR camera, saved now.
Enrolled(n) ==
    LET c == [encoding |-> Vec(n), pose |-> "center"]
    IN BuildFaceData(Alice, <<c>>, <<c>>, <<>>)

(***************************************************************************)
(* storage.rs load_face_data with the legacy facerec directories, and       *)
(* save_face_data with the ways it can fail.                                *)
(***************************************************************************)
\* How a save_face_data ends: create_dir_all fails, fs::write fails to open
\* the file, fs::write fails after it has created the file, or all is
\* written.
SaveOutcomes == {"mkdir_fails", "open_fails", "write_fails", "ok"}

\* save_face_data with its result.
SaveFaceDataResult(fs, data, io, writable) ==
    LET made == [fs EXCEPT ![UserDataDir] = IF @.exists THEN @ ELSE Dir(<<>>)]
    IN IF io = "mkdir_fails" THEN [ok |-> FALSE, files |-> fs]
       ELSE IF io = "open_fails" THEN [ok |-> FALSE, files |-> made]
       ELSE IF io = "write_fails"
       THEN [ok |-> FALSE,
             files |-> [made EXCEPT ![UserDataDir] =
                           WriteFile(@, CorruptFile(data.name))]]
       ELSE [ok |-> TRUE, files |-> SaveFaceData(fs, data, writable)]

Migrated(result, fs, lg, saved) ==
    [result |-> result, files |-> fs, legacy |-> lg, saved |-> saved]

\* load_face_data 160-168: the record of a legacy file is saved, the legacy
\* file is removed when the save returned Ok, the record is returned.
MigrationOf(fs, lg, i, io, writable, removable) ==
    LET s == SaveFaceDataResult(fs, lg[i], io, writable)
    IN Migrated(SomeData(lg[i]), s.files,
                IF s.ok /\ removable THEN [lg EXCEPT ![i] = AbsentFile] ELSE lg,
                s.ok)

RECURSIVE LoadLegacyFrom(_, _, _, _, _, _)
\* load_face_data 155-172: the loop over the legacy directories.
LoadLegacyFrom(fs, lg, i, io, writable, removable) ==
    IF i > Len(lg) THEN Migrated(NoData, fs, lg, FALSE)
    ELSE IF lg[i].kind # "absent" /\ FaceDataParses(lg[i])
    THEN MigrationOf(fs, lg, i, io, writable, removable)
    ELSE LoadLegacyFrom(fs, lg, i + 1, io, writable, removable)

\* load_face_data: the user copy, the system copy, then the legacy
\* directories.
LoadFaceDataMigrating(fs, lg, username, io, writable, removable) ==
    IF FileOf(fs[UserDataDir], StorageName(username)).kind # "absent"
       \/ FileOf(fs[SystemDir], StorageName(username)).kind # "absent"
    THEN Migrated(LoadFaceData(fs, username), fs, lg, FALSE)
    ELSE LoadLegacyFrom(fs, lg, 1, io, writable, removable)

NoLegacyFiles == [i \in 1..MaxLegacyDirs |-> AbsentFile]

NoMigration ==
    [done |-> FALSE, result |-> NoData, saved |-> FALSE,
     filesBefore |-> <<>>, legacyBefore |-> <<>>]

NoSave == [stage |-> "idle", data |-> AbsentFile]
NoLoad == [done |-> FALSE, result |-> NoData, userCopy |-> AbsentFile,
           afterDelete |-> FALSE]
NoAuthLoad == [done |-> FALSE, faces |-> <<>>, userCopy |-> AbsentFile,
               read |-> Loaded(<<>>)]

StoreIdle == save = NoSave /\ loadObs = NoLoad /\ authObs = NoAuthLoad

(***************************************************************************)
(* window.rs: the state of GlanceWindow.                                   *)
(***************************************************************************)
\* GlanceWindow::default and constructed; camera_info is "none", "ir" or
\* "rgb"; frame_receiver is the number of the preview whose receiver the
\* window holds, 0 for None; add_face_sensitive is the sensitivity of the
\* Add Face button (a GTK button is sensitive when built); detect is
\* "pending" while the future of detect_camera waits for its result.
WinInit(camera_info) ==
    [is_capturing |-> FALSE, camera_info |-> camera_info,
     current_camera_type |-> "", consecutive_good_frames |-> 0,
     frame_count |-> 0, captured_encodings |-> <<>>, ir_encodings |-> <<>>,
     rgb_encodings |-> <<>>, completed_ir_capture |-> FALSE,
     completed_rgb_capture |-> FALSE, frame_receiver |-> 0, page |-> "main",
     add_face_sensitive |-> TRUE, detect |-> "idle"]

Hardware(ir, rgb, models) == [ir |-> ir, rgb |-> rgb, models |-> models]

\* History: a delete happened since the last save; how the last capture
\* session ended; the store when it started; the previews that were running
\* when the capture was cancelled; a frame of one of them processed since;
\* a frame of the IR camera processed while current_camera_type was "rgb";
\* the calls of save_captured_face since the session started.
HistoryInit ==
    [deleted |-> FALSE, sessionEnd |-> "none", diskAtStart |-> files,
     cancelled |-> {}, late |-> FALSE, irAfterSwitch |-> FALSE, saves |-> 0]

EnrollIdle ==
    /\ win = WinInit("none") /\ previews = <<>>
    /\ hw = Hardware(FALSE, FALSE, FALSE)
    /\ hist = HistoryInit

(***************************************************************************)
(* config.rs GlanceConfig::load and auth.rs AuthConfig::from_file, load:    *)
(* the configuration files.  A file is absent, unparsable, or holds the     *)
(* settings of a GlanceConfig.                                              *)
(***************************************************************************)
UserConfigFile == "~/.config/glance/config.json"
SystemConfigFile == "/etc/glance/config.json"
PamConfigFile == "/etc/glance/pam.json"
ConfigPaths == {UserConfigFile, SystemConfigFile, PamConfigFile}

\* config.rs 56-64: the defaults of GlanceConfig, with the fields the
\* authenticator takes from it (auth_timeout 5.0 s, as the PAM default).
GlanceConfigDefault ==
    [enabled |-> TRUE, ir_tolerance |-> IrTolerance, auth_timeout |-> PamDefaultTimeout]

GlanceConfigs ==
    { [enabled |-> e, ir_tolerance |-> tol, auth_timeout |-> PamDefaultTimeout] :
        e \in BOOLEAN, tol \in {IrTolerance - 1, IrTolerance} }

AbsentConfigFile == [kind |-> "absent", settings |-> GlanceConfigDefault]
CorruptConfigFile == [kind |-> "corrupt", settings |-> GlanceConfigDefault]
ConfigFile(c) == [kind |-> "valid", settings |-> c]
ConfigFiles ==
    {AbsentConfigFile, CorruptConfigFile} \cup { ConfigFile(c) : c \in GlanceConfigs }

\* GlanceConfig::load: the defaults when the path does not exist, an error
\* when the file cannot be parsed.
GlanceConfigLoad(file) ==
    IF file.kind = "absent" THEN [ok |-> TRUE, config |-> GlanceConfigDefault]
    ELSE IF file.kind = "corrupt" THEN [ok |-> FALSE, config |-> GlanceConfigDefault]
    ELSE [ok |-> TRUE, config |-> file.settings]

\* AuthConfig::from_file.
AuthConfigFromFile(file) ==
    LET c == GlanceConfigLoad(file)
    IN [ok |-> c.ok,
        config |-> [AuthConfigOf(c.config.enabled) EXCEPT
                       !.timeout = c.config.auth_timeout,
                       !.ir_tolerance = c.config.ir_tolerance]]

\* AuthConfig::load.
AuthConfigLoad(env) ==
    IF env.home /\ AuthConfigFromFile(env.fs[UserConfigFile]).ok
    THEN AuthConfigFromFile(env.fs[UserConfigFile]).config
    ELSE IF AuthConfigFromFile(env.fs[SystemConfigFile]).ok
    THEN AuthConfigFromFile(env.fs[SystemConfigFile]).config
    ELSE AuthConfigOf(TRUE)

NoConfigFiles == [home |-> TRUE, fs |-> [f \in ConfigPaths |-> AbsentConfigFile]]

NothingBuilt == [by |-> "none", as |-> <<>>, config |-> AuthConfigOf(TRUE)]

(***************************************************************************)
(* Camera enumeration: Camera::detect_all_cameras of the enroller and       *)
(* is_capture_device of the authenticator.  A video node has or has not a   *)
(* sysfs index attribute, and can or cannot be opened and read.             *)
(***************************************************************************)
NodeIds == 0 .. (MaxNodes - 1)

\* i32::MAX, the largest value parse::<i32> accepts.
I32Max == 2147483647

IndexValues == (0 .. MaxIndex) \cup {10 * MaxIndex}

Nodes ==
    { [has_index |-> FALSE, index |-> 0, opens |-> o] : o \in BOOLEAN }
    \cup { [has_index |-> TRUE, index |-> n, opens |-> o] :
              n \in IndexValues, o \in BOOLEAN }

DigitChar == <<"0", "1", "2", "3", "4", "5", "6", "7", "8", "9">>

Whitespace == {" ", "\n", "\t"}

RECURSIVE Decimal(_)
\* The text of the index attribute: the number in decimal and a newline.
Decimal(n) ==
    IF n < 10 THEN <<DigitChar[n + 1]>>
    ELSE Append(Decimal(n \div 10), DigitChar[(n % 10) + 1])

\* fs::read_to_string of the index attribute.
ReadIndex(node) ==
    IF node.has_index
    THEN [ok |-> TRUE, text |-> Append(Decimal(node.index), "\n")]
    ELSE [ok |-> FALSE, text |-> <<>>]

RECURSIVE TrimStart(_)
TrimStart(s) ==
    IF s # <<>> /\ Head(s) \in Whitespace THEN TrimStart(Tail(s)) ELSE s

RECURSIVE TrimEnd(_)
TrimEnd(s) ==
    IF s # <<>> /\ s[Len(s)] \in Whitespace
    THEN TrimEnd(SubSeq(s, 1, Len(s) - 1)) ELSE s

\* str::trim.
Trim(s) == TrimEnd(TrimStart(s))

DigitOf(ch) == (CHOOSE d \in 1..10 : DigitChar[d] = ch) - 1

IsDigit(ch) == \E d \in 1..10 : DigitChar[d] = ch

RECURSIVE DigitsValue(_)
DigitsValue(s) ==
    IF s = <<>> THEN 0
    ELSE 10 * DigitsValue(SubSeq(s, 1, Len(s) - 1)) + DigitOf(s[Len(s)])

\* str::parse::<i32>: an optional sign, at least one digit, within range.
ParseI32(s) ==
    LET signed == s # <<>> /\ Head(s) \in {"+", "-"}
        digits == IF signed THEN Tail(s) ELSE s
        wellFormed == digits # <<>> /\ \A i \in DOMAIN digits : IsDigit(digits[i])
        magnitude == DigitsValue(digits)
    IN IF wellFormed /\ magnitude <= I32Max
       THEN [ok |-> TRUE,
             value |-> IF signed /\ Head(s) = "-" THEN 0 - magnitude ELSE magnitude]
       ELSE [ok |-> FALSE, value |-> 0]

\* An index filter that skips no node.
IndexExcludes_Never(node) == FALSE

\* The index filter of both enumerations: a node is skipped when its index
\* attribute can be read, parses, and is not 0.
IndexExcludes(node) ==
    LET index_str == ReadIndex(node)
        index == ParseI32(Trim(index_str.text))
    IN index_str.ok /\ index.ok /\ index.value # 0

\* VideoCapture::new, is_opened, and the read of a test frame.
OpensAndReads(node) == node.opens

\* Camera::detect_all_cameras: the device ids returned, in ascending order.
DetectAllCameras(ns) ==
    LET Kept(id) == ~IndexExcludes(ns[id]) /\ OpensAndReads(ns[id])
    IN SelectSeq([i \in 1..MaxNodes |-> i - 1], Kept)

\* is_capture_device of the authenticator.
IsCaptureDevice(ns, device_id) ==
    IF IndexExcludes(ns[device_id]) THEN FALSE
    ELSE OpensAndReads(ns[device_id])

NoNodes == [id \in NodeIds |-> [has_index |-> FALSE, index |-> 0, opens |-> FALSE]]

NoneFound == [by |-> "none", device_id |-> 0, ids |-> <<>>]

(***************************************************************************)
(* window.rs: the debounced labels of the capture page.                    *)
(***************************************************************************)
\* The fields as GlanceWindow::default leaves them and the labels as build_ui
\* builds them; face_found is the css class of the face icon.
UiInit ==
    [last_guidance |-> "", guidance_stable_frames |-> 0,
     lbl_guidance |-> "", guidance_class |-> "neutral",
     last_status |-> "", status_stable_frames |-> 0,
     lbl_capture_title |-> "Looking for you...", face_found |-> FALSE]

\* The mutant shows a new guidance at once.
UpdateGuidance_Immediate(u, text, style) ==
    IF u.last_guidance = text
    THEN [u EXCEPT !.guidance_stable_frames = @ + 1]
    ELSE [u EXCEPT !.last_guidance = text, !.guidance_stable_frames = 1,
                   !.lbl_guidance = text, !.guidance_class = style]

\* update_guidance.
UpdateGuidance(u, text, style) ==
    IF u.last_guidance = text
    THEN LET count == u.guidance_stable_frames + 1
         IN IF count = 2
            THEN [u EXCEPT !.guidance_stable_frames = count,
                           !.lbl_guidance = text, !.guidance_class = style]
            ELSE [u EXCEPT !.guidance_stable_frames = count]
    ELSE [u EXCEPT !.last_guidance = text, !.guidance_stable_frames = 1]

\* The mutant applies every changed title.
SetCaptureStatus_Always(u, title, face_found) ==
    IF u.last_status = title
    THEN [u EXCEPT !.status_stable_frames = @ + 1]
    ELSE [u EXCEPT !.lbl_capture_title = title, !.face_found = face_found,
                   !.last_status = title, !.status_stable_frames = 0]

\* set_capture_status.
SetCaptureStatus(u, title, face_found) ==
    IF u.last_status = title
    THEN [u EXCEPT !.status_stable_frames = @ + 1]
    ELSE LET stable == u.status_stable_frames
             shown == IF stable >= 2 \/ u.last_status = ""
                      THEN [u EXCEPT !.lbl_capture_title = title,
                                     !.face_found = face_found,
                                     !.last_status = title]
                      ELSE u
         IN [shown EXCEPT !.status_stable_frames = 0]

\* The calls of update_guidance and set_capture_status in window.rs.
Guidances ==
    { [text |-> "Position your face in front of the camera", style |-> "neutral"],
      [text |-> "Face models not loaded", style |-> "error"],
      [text |-> "Hold still, getting a better look...", style |-> "neutral"],
      [text |-> "Perfect! Stay still...", style |-> "success"] }
Statuses ==
    { [title |-> "Initializing...", face_found |-> FALSE],
      [title |-> "Looking for you...", face_found |-> FALSE],
      [title |-> "We see you!", face_found |-> TRUE],
      [title |-> "Hold still...", face_found |-> TRUE],
      [title |-> "Now capturing with regular camera...", face_found |-> FALSE],
      [title |-> "All done!", face_found |-> TRUE] }
\* process_frame 918-926 writes the title without set_capture_status.
DirectTitles == {"That's you!", "Almost there...", "Hold still..."}

\* The last call: its function and arguments; the text of the last
\* update_guidance of the session and the number of consecutive calls with
\* it; the texts requested in two consecutive calls.
NoCall ==
    [fn |-> "none", text |-> "", style |-> "", face_found |-> FALSE,
     lastText |-> "", run |-> 0, twice |-> {}]

EmitterIdle ==
    /\ emObj = [emitter |-> IrEmitterNew(IrDevice), dropped |-> FALSE]
    /\ emProcs = {}
    /\ emObs = NoEmitterCall

LateIdle ==
    /\ legacyFiles = NoLegacyFiles /\ migObs = NoMigration
    /\ EmitterIdle
    /\ frame_parity = 0 /\ abandoned = NoneAbandoned

AuxIdle ==
    /\ ui = UiInit /\ uiObs = NoCall /\ nodes = NoNodes /\ found = NoneFound
    /\ cfgEnv = NoConfigFiles /\ cfgObs = NothingBuilt
    /\ LateIdle

MatcherIdle ==
    /\ mProbe = <<>> /\ mUsers = <<>> /\ mTolerance = 0
    /\ mResult = NoneVal /\ mPc = "off"

AuthIdle ==
    /\ pamPc = "init" /\ pamRet = "none" /\ userResolved = "unknown"
    /\ config = AuthConfigOf(FALSE)
    /\ now = 0 /\ retTime = -1
    /\ supPc = "idle" /\ pending = NoResult /\ authResult = NoResult
    /\ chan = Empty /\ sweeps = 0
    /\ wpc = "idle" /\ start_time = 0 /\ ir_emitter = NoEmitter /\ procs = {}
    /\ registered_faces = <<>> /\ sorted_cameras = <<>> /\ camIdx = 0
    /\ camera = NoCamera /\ frames = 0 /\ consecutive_failures = 0
    /\ wResult = NoResult /\ events = <<>> /\ matchedProbe = <<>>
    /\ started = {} /\ endedAt = -1

Init ==
    /\ args \in ArgLists
    /\ files \in { [d \in DirNames |->
                      IF d = SystemDir THEN st[1] ELSE IF d = XdgDir THEN st[2]
                      ELSE DirMissing]
                   : st \in StoreStates }
    /\ sysfs \in SysfsStates
    /\ \E e \in { <<TRUE, TRUE>>, <<FALSE, TRUE>>, <<TRUE, FALSE>> } :
          /\ loaded = AuthConfigOf(e[1])
          /\ models_present = e[2]
    /\ AuthIdle
    /\ MatcherIdle
    /\ StoreIdle
    /\ EnrollIdle
    /\ AuxIdle

(***************************************************************************)
(* lib.rs PamGlance::authenticate, up to the call of auth::authenticate,   *)
(* and auth.rs authenticate up to recv_timeout: the worker is spawned.     *)
(***************************************************************************)
\* lib.rs 38-45: the loaded configuration with the PAM user and arguments.
AuthConfigForPam(base, pam_config, username) ==
    [base EXCEPT !.target_user = Target(username),
                 !.timeout = pam_config.timeout,
                 !.prefer_ir = pam_config.prefer_ir,
                 !.data_dir = IF pam_config.data_dir # "" THEN pam_config.data_dir
                              ELSE base.data_dir]

PamAuthenticate ==
    /\ pamPc = "init"
    /\ mPc = "off"
    /\ LET parsed == ParseArgs(args)
       IN IF ~parsed.ok
          THEN /\ pamRet' = "PAM_AUTH_ERR"
               /\ pamPc' = "done"
               /\ UNCHANGED <<userResolved, config, supPc, wpc, start_time>>
          ELSE \E resolved \in BOOLEAN :
               IF ~resolved
               THEN /\ userResolved' = "no"
                    /\ pamRet' = "PAM_USER_UNKNOWN"
                    /\ pamPc' = "done"
                    /\ UNCHANGED <<config, supPc, wpc, start_time>>
               ELSE /\ userResolved' = "yes"
                    /\ pamRet' = pamRet
                    /\ IF parsed.config.timeout < 0
                       THEN \* Duration::from_secs_f64 panics on a negative value
                            /\ pamPc' = "panicked"
                            /\ UNCHANGED <<config, supPc, wpc, start_time>>
                       ELSE /\ pamPc' = "in_auth"
                            /\ config' = AuthConfigForPam(loaded, parsed.config, Alice)
                            /\ supPc' = "waiting"
                            /\ wpc' = "start"
                            /\ start_time' = now
    /\ UNCHANGED <<envVars, now, pending, authResult, chan, sweeps, retTime,
                   ir_emitter, procs, registered_faces, camVars, wResult, events,
                   matchedProbe, started, endedAt, matchVars,
                   storeVars, enrVars, auxVars>>

\* lib.rs 47-69: the result of authenticate mapped to the PAM code.
PamReturn ==
    /\ pamPc = "in_auth"
    /\ supPc = "done"
    /\ pamRet' = PamCode(authResult)
    /\ pamPc' = "done"
    /\ UNCHANGED <<envVars, userResolved, config, now, supVars, wrkVars, matchVars,
                   storeVars, enrVars, auxVars>>

(***************************************************************************)
(* auth.rs authenticate: the supervisor waits on the channel until         *)
(* timeout + 500 ms after the call.                                        *)
(***************************************************************************)
\* The mutant forgets the grace period.
HardTimeout_NoGrace(timeout) == timeout

\* auth.rs 123: timeout + Duration::from_millis(500).
HardTimeout(timeout) == timeout + GraceTicks

Deadline == start_time + HardTimeout(config.timeout)

\* Ok(result): the worker has sent and ends; join returns at once.
SupervisorReceive ==
    /\ supPc = "waiting"
    /\ chan.state = "msg"
    /\ authResult' = chan.result
    /\ supPc' = "done"
    /\ retTime' = now
    /\ UNCHANGED <<envVars, pamVars, now, pending, chan, sweeps, wrkVars, matchVars,
                   storeVars, enrVars, auxVars>>

\* Err(Timeout): nothing was delivered by the deadline; pkill is started.
SupervisorTimeout ==
    /\ supPc = "waiting"
    /\ chan.state = "empty"
    /\ now >= Deadline
    /\ pending' = Result("Timeout", "")
    /\ supPc' = "sweeping"
    /\ UNCHANGED <<envVars, pamVars, now, authResult, chan, sweeps, retTime,
                   wrkVars, matchVars,
                   storeVars, enrVars, auxVars>>

\* Err(Disconnected): the worker ended without sending; pkill is started.
SupervisorDisconnected ==
    /\ supPc = "waiting"
    /\ chan.state = "closed"
    /\ pending' = Result("Error", "Internal error")
    /\ supPc' = "sweeping"
    /\ UNCHANGED <<envVars, pamVars, now, authResult, chan, sweeps, retTime,
                   wrkVars, matchVars,
                   storeVars, enrVars, auxVars>>

\* Command::output returns: pkill has run and authenticate returns.
SupervisorSweepDone ==
    /\ supPc = "sweeping"
    /\ procs' = PkillEmitters(procs)
    /\ sweeps' = sweeps + 1
    /\ authResult' = pending
    /\ supPc' = "done"
    /\ retTime' = now
    /\ UNCHANGED <<envVars, pamVars, now, pending, chan, wpc, start_time,
                   ir_emitter, registered_faces, camVars, wResult, events,
                   matchedProbe, started, endedAt, matchVars,
                   storeVars, enrVars, auxVars>>

\* Time passes while authenticate is running.  It does not pass while the
\* worker is at its first step (the thread starts and spawns the emitter at
\* once), nor while the supervisor has a message or a timeout to act on.
Tick ==
    /\ now < MaxTime
    /\ supPc \in {"waiting", "sweeping"}
    /\ wpc # "start"
    /\ supPc = "waiting" => (chan.state = "empty" /\ now < Deadline)
    /\ now' = now + 1
    /\ UNCHANGED <<envVars, pamVars, supVars, wrkVars, matchVars,
                   storeVars, enrVars, auxVars>>

(***************************************************************************)
(* auth.rs authenticate_inner: the worker.                                 *)
(***************************************************************************)
Elapsed == now - start_time
TimedOut == Elapsed >= config.timeout

\* What a channel holds after the worker's tx.send(result): the send fails
\* silently once authenticate has returned and dropped the receiver.
Sent(result) == IF supPc = "done" THEN chan ELSE Msg(result)

\* cleanup_and_return!: disable the emitter if one is held.
Cleanup(em, ps) ==
    IF em.some
    THEN LET d == IrEmitterDisable(em.emitter, ps)
         IN [ir_emitter |-> NoEmitter, procs |-> d.procs, events |-> <<Ev("emitter_off", -1)>>]
    ELSE [ir_emitter |-> NoEmitter, procs |-> ps, events |-> <<>>]

\* The worker returns `result` through cleanup_and_return!; a camera still
\* in scope is dropped when the function is left, after the macro has run.
WorkerReturns(result) ==
    LET c == Cleanup(ir_emitter, procs)
        released == IF camera = NoCamera THEN <<>>
                    ELSE <<Ev("release", camera.device_id)>>
    IN /\ ir_emitter' = c.ir_emitter
       /\ procs' = c.procs
       /\ events' = events \o c.events \o released
       /\ camera' = NoCamera
       /\ wResult' = result
       /\ chan' = Sent(result)
       /\ endedAt' = now
       /\ wpc' = "done"

\* auth.rs 156-169: the emitter is kept only if it is running.
WorkerEnableEmitter ==
    /\ wpc = "start"
    /\ IF config.enable_ir_emitter
       THEN \E env \in EmitterEnvs :
            LET e == IrEmitterEnable(IrEmitterNew(config.ir_device), env, procs)
            IN /\ ir_emitter' = IF e.ok /\ IsRunning(e.emitter)
                                THEN SomeEmitter(e.emitter)
                                ELSE NoEmitter
               /\ procs' = e.procs
               /\ started' = e.procs \ procs
               /\ events' = IF IsRunning(e.emitter) THEN events \o <<Ev("emitter_on", -1)>>
                            ELSE events
       ELSE UNCHANGED <<ir_emitter, procs, started, events>>
    /\ wpc' = "load"
    /\ UNCHANGED <<envVars, pamVars, now, supVars, start_time, registered_faces,
                   camVars, wResult, matchedProbe, endedAt, matchVars,
                   storeVars, enrVars, auxVars>>

\* auth.rs 181-226: load the templates, check the deadline, enumerate and
\* order the cameras.
WorkerLoadFaces ==
    /\ wpc = "load"
    /\ LET r == LoadRegisteredFaces(config.data_dir, files)
           cameras == DetectCamerasFast(sysfs)
       IN IF r.ok /\ r.faces # <<>> /\ ~TimedOut /\ cameras # <<>>
          THEN /\ registered_faces' = r.faces
               /\ sorted_cameras' = SortedCameras(cameras, config.prefer_ir)
               /\ camIdx' = 1
               /\ wpc' = "camera"
               /\ UNCHANGED <<ir_emitter, procs, camera, wResult, events, chan,
                              endedAt>>
          ELSE /\ registered_faces' = IF r.ok THEN r.faces ELSE <<>>
               /\ WorkerReturns(
                    IF ~r.ok THEN Result("Error", "Load faces")
                    ELSE IF r.faces = <<>> THEN Result("NoMatch", "")
                    ELSE IF TimedOut THEN Result("Timeout", "")
                    ELSE Result("Error", "No cameras found"))
               /\ UNCHANGED <<sorted_cameras, camIdx>>
    /\ UNCHANGED <<envVars, pamVars, now, supPc, pending, authResult, sweeps,
                   retTime, start_time, frames, consecutive_failures,
                   matchedProbe, started, matchVars,
                   storeVars, enrVars, auxVars>>

\* auth.rs 229-275: the head of the loop over the cameras.
WorkerTryCamera ==
    /\ wpc = "camera"
    /\ IF camIdx > Len(sorted_cameras) \/ TimedOut
       THEN \* all cameras tried, or break on the deadline
            /\ WorkerReturns(Result("NoMatch", ""))
            /\ UNCHANGED <<camIdx, frames, consecutive_failures>>
       ELSE IF ~models_present
       THEN \* FaceRecognizer::new fails: continue
            /\ camIdx' = camIdx + 1
            /\ UNCHANGED <<ir_emitter, procs, camera, wResult, events, chan, wpc,
                           frames, consecutive_failures, endedAt>>
       ELSE \E opened \in BOOLEAN :
            IF ~opened
            THEN /\ camIdx' = camIdx + 1
                 /\ UNCHANGED <<ir_emitter, procs, camera, wResult, events, chan,
                                wpc, frames, consecutive_failures, endedAt>>
            ELSE /\ camera' = OpenDirect(sorted_cameras[camIdx])
                 /\ events' = events \o <<Ev("open", sorted_cameras[camIdx].device_id)>>
                 /\ frames' = 0
                 /\ consecutive_failures' = 0
                 /\ wpc' = "frames"
                 /\ UNCHANGED <<ir_emitter, procs, wResult, chan, camIdx, endedAt>>
    /\ UNCHANGED <<envVars, pamVars, now, supPc, pending, authResult, sweeps,
                   retTime, start_time, registered_faces, sorted_cameras,
                   matchedProbe, started, matchVars,
                   storeVars, enrVars, auxVars>>

\* auth.rs 319-326.
FacesToCheck(registered, target_user) ==
    IF target_user.some
    THEN SelectSeq(registered, LAMBDA uf : uf.username = target_user.name)
    ELSE registered

NoFaceMatch == [some |-> FALSE, username |-> <<>>, distance |-> 0, probe |-> <<>>]

RECURSIVE FirstMatch(_, _, _)
\* auth.rs 318-339: the first face of the frame that matches.
FirstMatch(faces, faces_to_check, tolerance) ==
    IF faces = <<>> THEN NoFaceMatch
    ELSE LET m == MatchFace(Head(faces), faces_to_check, tolerance)
         IN IF m.some
            THEN [some |-> TRUE, username |-> m.username, distance |-> m.distance,
                  probe |-> Head(faces)]
            ELSE FirstMatch(Tail(faces), faces_to_check, tolerance)

\* The tolerance of the RGB cameras for every camera.
EffectiveTolerance_RgbAlways(cfg, cam) == cfg.rgb_tolerance

\* auth.rs 260-261.
EffectiveTolerance(cfg, cam) ==
    IF cam.is_ir THEN cfg.ir_tolerance ELSE cfg.rgb_tolerance
CameraTypeOf(cam) == IF cam.is_ir THEN "Infrared" ELSE "Rgb"

\* A frame loop that gives a camera up at its first failed read.
LoopBreaks_FirstFailure(timed_out, n_frames, max_frames, failures) ==
    timed_out \/ n_frames >= max_frames \/ failures >= 1

\* auth.rs 277-290: the three breaks at the head of the frame loop.
LoopBreaks(timed_out, n_frames, max_frames, failures) ==
    timed_out \/ n_frames >= max_frames \/ failures >= MaxConsecutiveFailures

\* The mutant does not count a frame that was read.
FramesAfterRead_NotCounted(n_frames) == n_frames

\* auth.rs 307: frames += 1 after a read that returned a frame.
FramesAfterRead(n_frames) == n_frames + 1

\* auth.rs 276-342: one turn of the frame loop, with the outcomes a read can
\* have: it blocks for ever, fails, or delivers a frame with the faces
\* detected in it.
WorkerFrameReads(reads) ==
    /\ wpc = "frames"
    /\ IF LoopBreaks(TimedOut, frames, config.max_frames_per_camera,
                     consecutive_failures)
       THEN \* break, drop(camera), next camera
            /\ events' = events \o <<Ev("release", camera.device_id)>>
            /\ camera' = NoCamera
            /\ camIdx' = camIdx + 1
            /\ wpc' = "camera"
            /\ UNCHANGED <<ir_emitter, procs, wResult, chan, frames,
                           consecutive_failures, matchedProbe, endedAt>>
       ELSE \E read \in reads :
            IF read = "blocks"
            THEN /\ wpc' = "blocked"
                 /\ UNCHANGED <<ir_emitter, procs, wResult, chan, frames, camera,
                                consecutive_failures, matchedProbe, events, camIdx,
                                endedAt>>
            ELSE IF read = "fails"
            THEN /\ consecutive_failures' = consecutive_failures + 1
                 /\ UNCHANGED <<ir_emitter, procs, wResult, chan, frames, camera,
                                matchedProbe, events, camIdx, wpc, endedAt>>
            ELSE \E faces \in FrameFaces :
                 LET m == FirstMatch(faces,
                                     FacesToCheck(registered_faces, config.target_user),
                                     EffectiveTolerance(config, camera))
                 IN /\ consecutive_failures' = 0
                    /\ frames' = FramesAfterRead(frames)
                    /\ camIdx' = camIdx
                    /\ IF m.some
                       THEN /\ matchedProbe' = m.probe
                            /\ WorkerReturns(Success(m.username, m.distance,
                                                     CameraTypeOf(camera)))
                       ELSE UNCHANGED <<ir_emitter, procs, wResult, chan, camera,
                                        matchedProbe, events, wpc, endedAt>>
    /\ UNCHANGED <<envVars, pamVars, now, supPc, pending, authResult, sweeps,
                   retTime, start_time, registered_faces, sorted_cameras,
                   started, matchVars,
                   storeVars, enrVars, auxVars>>

WorkerFrame == WorkerFrameReads({"blocks", "fails", "frame"})

\* One turn of the frame loop in which camera.read returns.
WorkerFrameReturns == WorkerFrameReads({"fails", "frame"})

\* The worker panics (in OpenCV, dlib or serde): unwinding drops the camera,
\* then the emitter, then the sender.
WorkerPanics ==
    /\ wpc \in {"load", "camera", "frames"}
    /\ LET c == Cleanup(ir_emitter, procs)
           released == IF camera = NoCamera THEN <<>>
                       ELSE <<Ev("release", camera.device_id)>>
       IN /\ ir_emitter' = c.ir_emitter
          /\ procs' = c.procs
          /\ events' = events \o released \o c.events
    /\ camera' = NoCamera
    /\ chan' = IF supPc = "done" THEN chan ELSE Closed
    /\ endedAt' = now
    /\ wpc' = "panicked"
    /\ UNCHANGED <<envVars, pamVars, now, supPc, pending, authResult, sweeps,
                   retTime, start_time, registered_faces, sorted_cameras, camIdx,
                   frames, consecutive_failures, wResult, matchedProbe, started,
                   matchVars,
                   storeVars, enrVars, auxVars>>

Next ==
    \/ PamAuthenticate
    \/ PamReturn
    \/ SupervisorReceive
    \/ SupervisorTimeout
    \/ SupervisorDisconnected
    \/ SupervisorSweepDone
    \/ Tick
    \/ WorkerEnableEmitter
    \/ WorkerLoadFaces
    \/ WorkerTryCamera
    \/ WorkerFrame
    \/ WorkerPanics

Spec == Init /\ [][Next]_vars

(***************************************************************************)
(* Successive authenticate calls in one process.  authenticate does not    *)
(* join a worker it timed out on (auth.rs 128-135): the thread goes on, or *)
(* stays blocked in its read, with whatever it holds.  Of the abandoned    *)
(* workers the model keeps only the camera each one holds.                 *)
(***************************************************************************)
InitCalls ==
    /\ args = <<TimeoutArg(1)>>
    /\ files = [d \in DirNames |-> IF d = SystemDir THEN Dir(<<AliceJson>>)
                                    ELSE DirMissing]
    /\ sysfs \in { {Cam(2, "Infrared")}, {Cam(2, "Infrared"), Cam(4, "Infrared")} }
    /\ loaded = AuthConfigOf(TRUE) /\ models_present = TRUE
    /\ AuthIdle
    /\ MatcherIdle
    /\ StoreIdle
    /\ EnrollIdle
    /\ AuxIdle

CallsUnchanged == UNCHANGED <<ui, uiObs, detVars, cfgVars, migVars, emVars, frame_parity>>

\* One step of the current call; the abandoned workers stay as they are.
CallStep ==
    /\ Next
    /\ UNCHANGED abandoned

\* The PAM stack calls the module again after the call has returned: a new
\* channel and a new worker; a worker that has not ended keeps its camera.
PamCalledAgain ==
    /\ pamPc = "done"
    /\ abandoned.calls < MaxCalls
    /\ abandoned' = [calls |-> abandoned.calls + 1,
                     held |-> abandoned.held \cup
                                (IF camera = NoCamera THEN {}
                                 ELSE {[device_id |-> camera.device_id,
                                        blocked |-> wpc = "blocked"]})]
    /\ pamPc' = "init" /\ pamRet' = "none" /\ userResolved' = "unknown"
    /\ config' = AuthConfigOf(FALSE)
    /\ retTime' = -1
    /\ supPc' = "idle" /\ pending' = NoResult /\ authResult' = NoResult
    /\ chan' = Empty /\ sweeps' = 0
    /\ wpc' = "idle" /\ start_time' = 0 /\ ir_emitter' = NoEmitter
    /\ registered_faces' = <<>> /\ sorted_cameras' = <<>> /\ camIdx' = 0
    /\ camera' = NoCamera /\ frames' = 0 /\ consecutive_failures' = 0
    /\ wResult' = NoResult /\ events' = <<>> /\ matchedProbe' = <<>>
    /\ started' = {} /\ endedAt' = -1
    /\ UNCHANGED <<envVars, now, procs, matchVars, storeVars, enrVars>>
    /\ CallsUnchanged

\* An abandoned worker that is not blocked leaves its frame loop at the
\* deadline and drops its camera.
AbandonedReleases ==
    /\ \E a \in abandoned.held :
          /\ ~a.blocked
          /\ abandoned' = [abandoned EXCEPT !.held = @ \ {a}]
    /\ UNCHANGED <<envVars, pamVars, now, supVars, wrkVars, matchVars,
                   storeVars, enrVars>>
    /\ CallsUnchanged

NextCalls ==
    \/ CallStep
    \/ PamCalledAgain
    \/ AbandonedReleases

SpecCalls == InitCalls /\ [][NextCalls]_vars

(***************************************************************************)
(* The worker when every call it makes returns: no read blocks.  The       *)
(* worker thread is scheduled as long as it has a step to take; nothing is *)
(* assumed about the clock.                                                *)
(***************************************************************************)
InitReturning ==
    /\ args \in { <<TimeoutArg(1)>>, <<BadTimeoutArg>> }
    /\ files \in { [d \in DirNames |-> IF d = SystemDir THEN s ELSE DirMissing]
                   : s \in { DirMissing, Dir(<<AliceJson>>), Dir(<<BobJson, AliceJson>>) } }
    /\ sysfs \in SysfsStates
    /\ \E e \in { <<TRUE, TRUE>>, <<FALSE, TRUE>>, <<TRUE, FALSE>> } :
          /\ loaded = AuthConfigOf(e[1])
          /\ models_present = e[2]
    /\ AuthIdle
    /\ MatcherIdle
    /\ StoreIdle
    /\ EnrollIdle
    /\ AuxIdle

WorkerStep ==
    \/ WorkerEnableEmitter
    \/ WorkerLoadFaces
    \/ WorkerTryCamera
    \/ WorkerFrameReturns

NextReturning ==
    \/ PamAuthenticate
    \/ PamReturn
    \/ SupervisorReceive
    \/ SupervisorTimeout
    \/ SupervisorSweepDone
    \/ Tick
    \/ WorkerStep

SpecReturning == InitReturning /\ [][NextReturning]_vars /\ WF_vars(WorkerStep)

(***************************************************************************)
(* The matcher taken alone: match_face applied to a probe, a list of       *)
(* users with their templates, and a tolerance.                            *)
(***************************************************************************)
MatcherUsers ==
    { UserFaces(Alice, <<AliceEnc>>), UserFaces(Bob, <<BobEnc>>),
      UserFaces(AliceFace, <<Vec(10), AliceFaceEnc>>),
      UserFaces(<<"carol">>, <<BadVec(5)>>), UserFaces(<<"dave">>, <<>>) }

RECURSIVE UserLists(_)
\* The lists of at most n distinct users.
UserLists(n) ==
    IF n = 0 THEN { <<>> }
    ELSE LET shorter == UserLists(n - 1)
         IN shorter \cup
            { Append(l, u) : l \in { x \in shorter : Len(x) = n - 1 },
                             u \in MatcherUsers }

DistinctUsers(l) ==
    \A i, j \in 1..Len(l) : i # j => l[i].username # l[j].username

InitMatch ==
    /\ mProbe \in Probes
    /\ mUsers \in { l \in UserLists(MaxUsers) : DistinctUsers(l) }
    /\ mTolerance \in {IrTolerance, RgbTolerance}
    /\ mResult = NoneVal
    /\ mPc = "ready"
    /\ args = <<>>
    /\ files = [d \in DirNames |-> DirMissing]
    /\ sysfs = {}
    /\ loaded = AuthConfigOf(FALSE)
    /\ models_present = TRUE
    /\ AuthIdle
    /\ StoreIdle
    /\ EnrollIdle
    /\ AuxIdle

MatcherRun ==
    /\ mPc = "ready"
    /\ mResult' = MatchFace(mProbe, mUsers, mTolerance)
    /\ mPc' = "done"
    /\ UNCHANGED <<envVars, pamVars, now, supVars, wrkVars, mProbe, mUsers,
                   mTolerance, storeVars, enrVars, auxVars>>

NextMatch == MatcherRun

SpecMatch == InitMatch /\ [][NextMatch]_vars

(***************************************************************************)
(* The template store taken alone: the enroller saves, loads and deletes   *)
(* the template of alice while the authenticator, another process, reads   *)
(* the store.  fs::write truncates the file and then writes it: between    *)
(* the two the file is empty.                                              *)
(***************************************************************************)
StoreUnchanged ==
    UNCHANGED <<args, sysfs, loaded, models_present, pamVars, now, supVars,
                wrkVars, matchVars, enrVars, auxVars>>

InitStore ==
    /\ files \in { [d \in DirNames |->
                      IF d = SystemDir THEN sy ELSE IF d = UserDataDir THEN u
                      ELSE DirMissing]
                   : sy \in {DirMissing, Dir(<<>>), Dir(<<BobJson>>)},
                     u \in {DirMissing, Dir(<<>>)} }
    /\ args = <<>> /\ sysfs = {}
    /\ loaded = AuthConfigOf(FALSE) /\ models_present = TRUE
    /\ AuthIdle /\ MatcherIdle /\ StoreIdle /\ EnrollIdle /\ AuxIdle

\* save_captured_face builds the FaceData; save_face_data 185-194:
\* create_dir_all, then fs::write opens the user copy with truncation.
SaveStart ==
    /\ save.stage = "idle"
    /\ \E n \in 1..MaxVersions :
          /\ save' = [stage |-> "user", data |-> Enrolled(n)]
          /\ files' = [files EXCEPT ![UserDataDir] =
                          WriteFile(@, CorruptFile(StorageName(Alice)))]
    /\ hist' = [hist EXCEPT !.deleted = FALSE, !.diskAtStart = files]
    /\ UNCHANGED <<loadObs, authObs, win, previews, hw>>
    /\ UNCHANGED <<args, sysfs, loaded, models_present, pamVars, now, supVars,
                   wrkVars, matchVars, auxVars>>

\* save_face_data 194-199: the content is written; can_write_to_system.
SaveUserWritten ==
    /\ save.stage = "user"
    /\ files' = [files EXCEPT ![UserDataDir] = WriteFile(@, save.data)]
    /\ \E writable \in BOOLEAN :
          save' = IF CanWriteToSystem(files, writable)
                  THEN [save EXCEPT !.stage = "mirror"]
                  ELSE NoSave
    /\ UNCHANGED <<loadObs, authObs>>
    /\ StoreUnchanged

\* save_face_data 201: fs::write opens the mirror with truncation.
SaveMirrorStart ==
    /\ save.stage = "mirror"
    /\ files' = [files EXCEPT ![SystemDir] =
                    WriteFile(@, CorruptFile(StorageName(Alice)))]
    /\ save' = [save EXCEPT !.stage = "mirroring"]
    /\ UNCHANGED <<loadObs, authObs>>
    /\ StoreUnchanged

\* save_face_data 201-207: the mirror is written; Ok(()).
SaveMirrorWritten ==
    /\ save.stage = "mirroring"
    /\ files' = [files EXCEPT ![SystemDir] = WriteFile(@, save.data)]
    /\ save' = NoSave
    /\ UNCHANGED <<loadObs, authObs>>
    /\ StoreUnchanged

\* The enroller calls load_face_data (update_registered_status).
EnrollerLoads ==
    /\ save.stage = "idle"
    /\ loadObs' = [done |-> TRUE, result |-> LoadFaceData(files, Alice),
                   userCopy |-> FileOf(files[UserDataDir], StorageName(Alice)),
                   afterDelete |-> hist.deleted]
    /\ UNCHANGED <<files, save, authObs>>
    /\ StoreUnchanged

\* The enroller calls delete_face_data.
EnrollerDeletes ==
    /\ save.stage = "idle"
    /\ files' = DeleteFaceData(files, Alice)
    /\ hist' = [hist EXCEPT !.deleted = TRUE]
    /\ UNCHANGED <<save, loadObs, authObs, win, previews, hw>>
    /\ UNCHANGED <<args, sysfs, loaded, models_present, pamVars, now, supVars,
                   wrkVars, matchVars, auxVars>>

\* The authenticator, called by PAM with the default data_dir, loads the
\* templates (load_registered_faces); `read` is what load_user_faces makes of
\* the user copy.
AuthenticatorLoads ==
    /\ authObs' = [done |-> TRUE,
                   faces |-> LET r == LoadRegisteredFaces(PamConfigDefault.data_dir, files)
                             IN IF r.ok THEN r.faces ELSE <<>>,
                   userCopy |-> FileOf(files[UserDataDir], StorageName(Alice)),
                   read |-> LoadUserFaces(files[UserDataDir], Alice)]
    /\ UNCHANGED <<files, save, loadObs>>
    /\ StoreUnchanged

\* Time passes between the operations on the store.
StoreTick ==
    /\ now < MaxStoreTime
    /\ save.stage = "idle"
    /\ now' = now + 1
    /\ UNCHANGED <<envVars, pamVars, supVars, wrkVars, matchVars,
                   storeVars, enrVars, auxVars>>

NextStore ==
    \/ StoreTick
    \/ SaveStart
    \/ SaveUserWritten
    \/ SaveMirrorStart
    \/ SaveMirrorWritten
    \/ EnrollerLoads
    \/ EnrollerDeletes
    \/ AuthenticatorLoads

SpecStore == InitStore /\ [][NextStore]_vars

(***************************************************************************)
(* The enroller: window.rs.  A preview is one call of start_camera_preview: *)
(* a channel of ChannelCapacity frames, the thread that reads the camera   *)
(* and sends the frames, and the future that receives and processes them   *)
(* on the main thread.  The future owns its receiver: the clone the window *)
(* keeps in frame_receiver is a second handle on the same channel.  The    *)
(* cameras open and keep returning frames from read_frame.                 *)
(***************************************************************************)
IrEmbedding == Vec(1)
RgbEmbedding == Vec(2)

\* A frame is an image of the camera that took it.
Frame(cam) == [camera |-> cam]

\* What detect_and_encode finds in a frame: no face, a face the encoder fails
\* on, a face with its embedding.
EnrollFaces == {"none", "noenc", "good"}

\* detect_and_encode: the embedding of a frame is that of the face as the
\* camera that took the frame sees it.
EncodingOf(frame) == IF frame.camera = "ir" THEN IrEmbedding ELSE RgbEmbedding

Captured(encoding) == [encoding |-> encoding, pose |-> "center"]

DetectIrCamera(h) == h.ir
DetectRgbCamera(h) == h.rgb
DetectCameras(h) == IF h.ir THEN "ir" ELSE IF h.rgb THEN "rgb" ELSE "none"

Preview(cam) ==
    [camera |-> cam, producer |-> "running", consumer |-> "waiting",
     queue |-> <<>>]

\* The devices a camera thread holds open: the thread opens its camera with
\* Camera::new and keeps it until its loop ends.
HeldDevices(ps) ==
    { ps[s].camera : s \in { i \in DOMAIN ps : ps[i].producer = "running" } }

\* The devices detect_all_cameras opens and reads a test frame from: every
\* capture node, whatever its kind.
ProbedDevices(h) ==
    (IF h.ir THEN {"ir"} ELSE {}) \cup (IF h.rgb THEN {"rgb"} ELSE {})

Outcome(w, ps, fs) == [win |-> w, previews |-> ps, files |-> fs]

\* start_camera_preview: with no camera_info nothing is started.
StartCameraPreview(w, ps, fs) ==
    IF w.camera_info # "none"
    THEN Outcome([w EXCEPT !.frame_receiver = Len(ps) + 1],
                 Append(ps, Preview(w.camera_info)), fs)
    ELSE Outcome(w, ps, fs)

\* start_capture.
StartCapture(w, ps, fs, h) ==
    IF ~h.models THEN Outcome(w, ps, fs)
    ELSE LET reset == [w EXCEPT !.is_capturing = TRUE,
                                !.consecutive_good_frames = 0,
                                !.captured_encodings = <<>>,
                                !.ir_encodings = <<>>,
                                !.rgb_encodings = <<>>,
                                !.completed_ir_capture = FALSE,
                                !.completed_rgb_capture = FALSE,
                                !.frame_count = 0]
             chosen == IF DetectIrCamera(h)
                       THEN [reset EXCEPT !.current_camera_type = "ir",
                                          !.camera_info = "ir"]
                       ELSE IF DetectRgbCamera(h)
                       THEN [reset EXCEPT !.current_camera_type = "rgb",
                                          !.camera_info = "rgb"]
                       ELSE reset
         IN StartCameraPreview([chosen EXCEPT !.page = "capture"], ps, fs)

RECURSIVE RecordsOf(_, _)
\* FaceData::add_encoding, add_ir_encoding, add_rgb_encoding over a list.
RecordsOf(captured, ct) ==
    IF captured = <<>> THEN <<>>
    ELSE <<NestedEnc(Head(captured).encoding, ct)>> \o RecordsOf(Tail(captured), ct)

\* The mutant of cancel_capture saves what was captured so far.
CancelCaptureOf_Saves(w, fs) ==
    Outcome([w EXCEPT !.is_capturing = FALSE, !.frame_receiver = 0,
                      !.page = "main"],
            <<>>,
            SaveFaceData(fs, FaceDataOf(Alice, RecordsOf(w.captured_encodings, ""),
                                        RecordsOf(w.ir_encodings, "ir"),
                                        RecordsOf(w.rgb_encodings, "rgb")), FALSE))

\* cancel_capture.
CancelCaptureOf(w, fs) ==
    Outcome([w EXCEPT !.is_capturing = FALSE, !.frame_receiver = 0,
                      !.page = "main"],
            <<>>, fs)

\* save_captured_face.
SaveCapturedFace(w, ps, fs, writable) ==
    LET face_data == BuildFaceData(Alice, w.captured_encodings,
                                   w.ir_encodings, w.rgb_encodings)
    IN Outcome([w EXCEPT !.is_capturing = FALSE, !.frame_receiver = 0,
                         !.page = "main"],
               ps, SaveFaceData(fs, face_data, writable))

\* on_pose_captured.
OnPoseCaptured(w, ps, fs, h, encoding, writable) ==
    LET t == w.current_camera_type
        stored == IF t = "ir"
                  THEN [w EXCEPT !.ir_encodings = Append(@, Captured(encoding)),
                                 !.completed_ir_capture = TRUE]
                  ELSE IF t = "rgb"
                  THEN [w EXCEPT !.rgb_encodings = Append(@, Captured(encoding)),
                                 !.completed_rgb_capture = TRUE]
                  ELSE w
        with_legacy == [stored EXCEPT !.captured_encodings = Append(@, Captured(encoding))]
        ir_done == ~DetectIrCamera(h) \/ with_legacy.completed_ir_capture
        rgb_done == ~DetectRgbCamera(h) \/ with_legacy.completed_rgb_capture
    IN IF t = "ir" /\ DetectRgbCamera(h)
       THEN StartCameraPreview([stored EXCEPT !.is_capturing = TRUE,
                                              !.frame_receiver = 0,
                                              !.camera_info = "rgb",
                                              !.current_camera_type = "rgb",
                                              !.consecutive_good_frames = 0,
                                              !.frame_count = 0],
                               ps, fs)
       ELSE IF ir_done /\ rgb_done
       THEN SaveCapturedFace(with_legacy, ps, fs, writable)
       ELSE Outcome(with_legacy, ps, fs)

\* process_frame that leaves the counter alone on a frame with no face.
ProcessFrame_KeepsOnNoFace(w, ps, fs, h, frame, face, writable) ==
    LET frame_count == w.frame_count + 1
        counted == [w EXCEPT !.frame_count = frame_count]
        good_frames == w.consecutive_good_frames + 1
    IN IF frame_count % 2 # 0 \/ face = "none" THEN Outcome(counted, ps, fs)
       ELSE IF face = "noenc"
       THEN IF ~h.models
            THEN IF frame_count > 10
                 THEN LET c == CancelCaptureOf(
                                  [counted EXCEPT !.consecutive_good_frames = 0], fs)
                      IN Outcome(c.win, ps, c.files)
                 ELSE Outcome([counted EXCEPT !.consecutive_good_frames = 0], ps, fs)
            ELSE Outcome([counted EXCEPT !.consecutive_good_frames =
                             IF @ > 0 THEN @ - 1 ELSE 0], ps, fs)
       ELSE IF good_frames >= RequiredGoodFrames
       THEN OnPoseCaptured([counted EXCEPT !.consecutive_good_frames = good_frames],
                           ps, fs, h, EncodingOf(frame), writable)
       ELSE Outcome([counted EXCEPT !.consecutive_good_frames = good_frames], ps, fs)

\* process_frame: every second frame is looked at.
ProcessFrame(w, ps, fs, h, frame, face, writable) ==
    LET frame_count == w.frame_count + 1
        counted == [w EXCEPT !.frame_count = frame_count]
        good_frames == w.consecutive_good_frames + 1
    IN IF frame_count % 2 # 0 THEN Outcome(counted, ps, fs)
       ELSE IF face = "none"
       THEN Outcome([counted EXCEPT !.consecutive_good_frames = 0], ps, fs)
       ELSE IF face = "noenc"
       THEN IF ~h.models
            THEN IF frame_count > 10
                 THEN LET c == CancelCaptureOf(
                                  [counted EXCEPT !.consecutive_good_frames = 0], fs)
                      IN Outcome(c.win, ps, c.files)
                 ELSE Outcome([counted EXCEPT !.consecutive_good_frames = 0], ps, fs)
            ELSE Outcome([counted EXCEPT !.consecutive_good_frames =
                             IF @ > 0 THEN @ - 1 ELSE 0], ps, fs)
       ELSE IF good_frames >= RequiredGoodFrames
       THEN OnPoseCaptured([counted EXCEPT !.consecutive_good_frames = good_frames],
                           ps, fs, h, EncodingOf(frame), writable)
       ELSE Outcome([counted EXCEPT !.consecutive_good_frames = good_frames], ps, fs)

EnrollRestUnchanged ==
    UNCHANGED <<args, sysfs, loaded, models_present, pamVars, now, supVars,
                wrkVars, matchVars, storeVars>>

EnrollUnchanged == EnrollRestUnchanged /\ UNCHANGED auxVars

InitEnroll ==
    /\ files \in { [d \in DirNames |->
                      IF d = SystemDir THEN Dir(<<>>)
                      ELSE IF d = UserDataDir THEN u ELSE DirMissing]
                   : u \in {Dir(<<>>), Dir(<<Version(1)>>)} }
    /\ args = <<>> /\ sysfs = {}
    /\ loaded = AuthConfigOf(FALSE) /\ models_present = TRUE
    /\ AuthIdle /\ MatcherIdle /\ StoreIdle
    /\ hw \in { Hardware(ir, rgb, m) : ir \in BOOLEAN, rgb \in BOOLEAN, m \in BOOLEAN }
    /\ win = [WinInit("none") EXCEPT !.detect = IF hw.models THEN "pending" ELSE "idle"]
    /\ previews = <<>>
    /\ hist = HistoryInit
    /\ AuxIdle

\* on_camera_detected, run by the future of detect_camera.
OnCameraDetected ==
    /\ win.detect = "pending"
    /\ win' = IF DetectCameras(hw) # "none"
              THEN [win EXCEPT !.camera_info = DetectCameras(hw),
                               !.add_face_sensitive = TRUE, !.detect = "done"]
              ELSE [win EXCEPT !.add_face_sensitive = FALSE, !.detect = "done"]
    /\ UNCHANGED <<files, previews, hw, hist>>
    /\ EnrollUnchanged

\* The Add Face button: show_add_face_dialog, start_capture,
\* start_camera_preview.
AddFace ==
    /\ win.page = "main"
    /\ win.add_face_sensitive
    /\ Len(previews) < MaxPreviews
    /\ LET r == StartCapture(win, previews, files, hw)
       IN /\ win' = r.win
          /\ previews' = r.previews
          /\ hist' = IF hw.models
                     THEN [hist EXCEPT !.sessionEnd = "running",
                                       !.diskAtStart = files, !.saves = 0]
                     ELSE hist
    /\ UNCHANGED <<files, hw>>
    /\ EnrollUnchanged

\* The camera thread: read_frame, send_blocking.
ProducerSend(s) ==
    /\ previews[s].producer = "running"
    /\ previews[s].consumer = "waiting"
    /\ Len(previews[s].queue) < ChannelCapacity
    /\ previews' = [previews EXCEPT ![s].queue =
                       Append(@, Frame(previews[s].camera))]
    /\ UNCHANGED <<files, win, hw, hist>>
    /\ EnrollUnchanged

\* The camera thread: send_blocking fails once every receiver is dropped.
ProducerSendFails(s) ==
    /\ previews[s].producer = "running"
    /\ previews[s].consumer = "ended"
    /\ previews' = [previews EXCEPT ![s].producer = "stopped"]
    /\ UNCHANGED <<files, win, hw, hist>>
    /\ EnrollUnchanged

\* The future: recv returns a frame; break when is_capturing is false, else
\* process_frame.
ConsumerFrame(s, face) ==
    /\ previews[s].consumer = "waiting"
    /\ previews[s].queue # <<>>
    /\ LET frame == Head(previews[s].queue)
           rest == [previews EXCEPT ![s].queue = Tail(@)]
           looked == (win.frame_count + 1) % 2 = 0
       IN IF ~win.is_capturing
          THEN /\ previews' = [previews EXCEPT ![s].consumer = "ended",
                                               ![s].queue = <<>>]
               /\ UNCHANGED <<files, win, hist>>
          ELSE \E writable \in BOOLEAN :
                  LET r == ProcessFrame(win, rest, files, hw, frame, face, writable)
                  IN /\ win.frame_count < MaxFrames
                     /\ Len(r.previews) <= MaxPreviews
                     /\ win' = r.win
                     /\ previews' = r.previews
                     /\ files' = r.files
                     /\ hist' = [hist EXCEPT
                           !.late = @ \/ (looked /\ s \in hist.cancelled),
                           !.irAfterSwitch =
                               @ \/ (/\ looked
                                     /\ frame.camera = "ir"
                                     /\ win.current_camera_type = "rgb"),
                           !.sessionEnd =
                               IF r.win.page = "main" THEN "saved" ELSE @,
                           !.saves = IF r.win.page = "main" THEN @ + 1 ELSE @,
                           !.deleted = IF r.files # files THEN FALSE ELSE @]
    /\ UNCHANGED hw
    /\ EnrollRestUnchanged

ConsumerStep(s) ==
    /\ \E face \in EnrollFaces : ConsumerFrame(s, face)
    /\ UNCHANGED auxVars

\* The Cancel button of the capture page: cancel_capture.
CancelCapture ==
    /\ win.page = "capture"
    /\ LET r == CancelCaptureOf(win, files)
       IN win' = r.win /\ files' = r.files
    /\ hist' = [hist EXCEPT !.sessionEnd = "cancelled",
                            !.cancelled = DOMAIN previews]
    /\ UNCHANGED <<previews, hw>>
    /\ EnrollUnchanged

NextEnroll ==
    \/ OnCameraDetected
    \/ AddFace
    \/ \E s \in 1..MaxPreviews : s \in DOMAIN previews /\ ProducerSend(s)
    \/ \E s \in 1..MaxPreviews : s \in DOMAIN previews /\ ProducerSendFails(s)
    \/ \E s \in 1..MaxPreviews : s \in DOMAIN previews /\ ConsumerStep(s)
    \/ CancelCapture

SpecEnroll == InitEnroll /\ [][NextEnroll]_vars

\* Capture sessions that run to their end (Cancel is not pressed), with the
\* last frame the consumer took recorded: the call made on it, the detection
\* result and the camera the frame came from.
FrameCall(fn, face, cam) ==
    [NoCall EXCEPT !.fn = fn, !.text = face, !.style = cam]

ObservedFrame(s) ==
    /\ \E face \in EnrollFaces :
          /\ ConsumerFrame(s, face)
          /\ uiObs' = IF win.is_capturing
                      THEN FrameCall("process_frame", face,
                                     Head(previews[s].queue).camera)
                      ELSE FrameCall("break", "", "")
    /\ UNCHANGED <<ui, detVars, cfgVars, lateVars>>

NextFrame ==
    \/ OnCameraDetected
    \/ AddFace
    \/ \E s \in 1..MaxPreviews : s \in DOMAIN previews /\ ProducerSend(s)
    \/ \E s \in 1..MaxPreviews : s \in DOMAIN previews /\ ProducerSendFails(s)
    \/ \E s \in 1..MaxPreviews : s \in DOMAIN previews /\ ObservedFrame(s)

SpecFrame == InitEnroll /\ [][NextFrame]_vars

(***************************************************************************)
(* The labels of the capture page taken alone: any sequence of the calls   *)
(* window.rs makes of update_guidance and set_capture_status.              *)
(***************************************************************************)
UiUnchanged ==
    UNCHANGED <<envVars, pamVars, now, supVars, wrkVars, matchVars,
                storeVars, enrVars, detVars, cfgVars, lateVars>>

InitUi ==
    /\ files = [d \in DirNames |-> DirMissing]
    /\ args = <<>> /\ sysfs = {}
    /\ loaded = AuthConfigOf(FALSE) /\ models_present = TRUE
    /\ AuthIdle /\ MatcherIdle /\ StoreIdle /\ EnrollIdle /\ AuxIdle

\* start_capture 745-748 and update_pose_ui.
ResetUi ==
    /\ ui' = [ui EXCEPT !.last_guidance = "", !.guidance_stable_frames = 0,
                        !.last_status = "", !.status_stable_frames = 0,
                        !.face_found = FALSE,
                        !.lbl_capture_title = "Setting up..."]
    /\ uiObs' = [uiObs EXCEPT !.fn = "start_capture", !.text = "", !.style = "",
                              !.face_found = FALSE, !.lastText = "", !.run = 0]
    /\ UiUnchanged

CallUpdateGuidance ==
    /\ \E g \in Guidances :
          /\ g.text = ui.last_guidance => ui.guidance_stable_frames < MaxStable
          /\ ui' = UpdateGuidance(ui, g.text, g.style)
          /\ LET run == IF g.text = uiObs.lastText THEN uiObs.run + 1 ELSE 1
             IN uiObs' = [uiObs EXCEPT !.fn = "update_guidance",
                             !.text = g.text, !.style = g.style,
                             !.face_found = FALSE,
                             !.lastText = g.text, !.run = run,
                             !.twice = IF run >= 2 THEN @ \cup {g.text} ELSE @]
    /\ UiUnchanged

CallSetCaptureStatus ==
    /\ \E st \in Statuses :
          /\ st.title = ui.last_status => ui.status_stable_frames < MaxStable
          /\ ui' = SetCaptureStatus(ui, st.title, st.face_found)
          /\ uiObs' = [uiObs EXCEPT !.fn = "set_capture_status",
                          !.text = st.title, !.style = "",
                          !.face_found = st.face_found]
    /\ UiUnchanged

\* process_frame 918-926.
SetTitleDirect ==
    /\ \E t \in DirectTitles : ui' = [ui EXCEPT !.lbl_capture_title = t]
    /\ uiObs' = [uiObs EXCEPT !.fn = "process_frame", !.text = "", !.style = "",
                              !.face_found = FALSE]
    /\ UiUnchanged

NextUi ==
    \/ ResetUi
    \/ CallUpdateGuidance
    \/ CallSetCaptureStatus
    \/ SetTitleDirect

SpecUi == InitUi /\ [][NextUi]_vars

(***************************************************************************)
(* The capture title over the frames of a preview.  process_frame looks at *)
(* every second frame; the frames keep coming while the preview runs.      *)
(***************************************************************************)
TitleUnchanged ==
    UNCHANGED <<envVars, pamVars, now, supVars, wrkVars, matchVars,
                storeVars, enrVars, detVars, cfgVars, migVars, emVars,
                abandoned>>

\* process_frame 852-856: an odd frame is skipped.
FrameSkipped ==
    /\ frame_parity = 0
    /\ frame_parity' = 1
    /\ UNCHANGED <<ui, uiObs>>
    /\ TitleUnchanged

\* process_frame 859-926: the title of an even frame.  After "Hold still..."
\* the label is also written directly.
FrameUpdate ==
    /\ frame_parity = 1
    /\ frame_parity' = 0
    /\ \E st \in Statuses \ { [title |-> "Now capturing with regular camera...",
                                 face_found |-> FALSE],
                                [title |-> "All done!", face_found |-> TRUE] } :
          /\ st.title = ui.last_status => ui.status_stable_frames < MaxStable
          /\ LET u == SetCaptureStatus(ui, st.title, st.face_found)
             IN IF st.title = "Hold still..."
                THEN \E d \in DirectTitles : ui' = [u EXCEPT !.lbl_capture_title = d]
                ELSE ui' = u
          /\ uiObs' = [uiObs EXCEPT !.fn = "set_capture_status",
                          !.text = st.title, !.style = "",
                          !.face_found = st.face_found]
    /\ TitleUnchanged

NextTitle ==
    \/ FrameSkipped
    \/ FrameUpdate

SpecTitle == InitUi /\ [][NextTitle]_vars /\ WF_vars(NextTitle)

DetectUnchanged ==
    UNCHANGED <<envVars, pamVars, now, supVars, wrkVars, matchVars,
                storeVars, enrVars, ui, uiObs, cfgVars, lateVars>>

InitDetect ==
    /\ files = [d \in DirNames |-> DirMissing]
    /\ args = <<>> /\ sysfs = {}
    /\ loaded = AuthConfigOf(FALSE) /\ models_present = TRUE
    /\ AuthIdle /\ MatcherIdle /\ StoreIdle /\ EnrollIdle
    /\ ui = UiInit /\ uiObs = NoCall
    /\ nodes \in [NodeIds -> Nodes]
    /\ found = NoneFound
    /\ cfgEnv = NoConfigFiles /\ cfgObs = NothingBuilt
    /\ LateIdle

\* The enroller enumerates the cameras.
RunDetectAllCameras ==
    /\ found' = [by |-> "detect_all_cameras", device_id |-> 0,
                 ids |-> DetectAllCameras(nodes)]
    /\ UNCHANGED nodes
    /\ DetectUnchanged

\* detect_cameras of the authenticator asks is_capture_device about a node.
RunIsCaptureDevice(device_id) ==
    /\ found' = [by |-> "is_capture_device", device_id |-> device_id,
                 ids |-> IF IsCaptureDevice(nodes, device_id)
                         THEN <<device_id>> ELSE <<>>]
    /\ UNCHANGED nodes
    /\ DetectUnchanged

NextDetect ==
    \/ RunDetectAllCameras
    \/ \E device_id \in NodeIds : RunIsCaptureDevice(device_id)

SpecDetect == InitDetect /\ [][NextDetect]_vars

ConfigUnchanged ==
    UNCHANGED <<envVars, pamVars, now, supVars, wrkVars, matchVars,
                storeVars, enrVars, ui, uiObs, detVars, lateVars>>

InitConfig ==
    /\ files = [d \in DirNames |-> DirMissing]
    /\ args = <<>> /\ sysfs = {}
    /\ loaded = AuthConfigOf(FALSE) /\ models_present = TRUE
    /\ AuthIdle /\ MatcherIdle /\ StoreIdle /\ EnrollIdle
    /\ ui = UiInit /\ uiObs = NoCall /\ nodes = NoNodes /\ found = NoneFound
    /\ cfgEnv \in { [home |-> h, fs |-> f] :
                       h \in BOOLEAN, f \in [ConfigPaths -> ConfigFiles] }
    /\ cfgObs = NothingBuilt
    /\ LateIdle

\* The module arguments that name a configuration file, or none.
ConfigArgLists ==
    { <<>>, <<ConfigArg(PamConfigFile)>>, <<ConfigArg(SystemConfigFile)>>,
      <<FlagArg("prefer_rgb"), ConfigArg(PamConfigFile)>> }

\* AuthConfig::load taken alone.
RunAuthConfigLoad ==
    /\ cfgObs' = [by |-> "load", as |-> <<>>, config |-> AuthConfigLoad(cfgEnv)]
    /\ UNCHANGED cfgEnv
    /\ ConfigUnchanged

\* lib.rs 20-45: the configuration the PAM entry point hands to authenticate.
RunPamConfig(as) ==
    /\ ParseArgs(as).ok
    /\ cfgObs' = [by |-> "pam", as |-> as,
                  config |-> AuthConfigForPam(AuthConfigLoad(cfgEnv),
                                              ParseArgs(as).config, Alice)]
    /\ UNCHANGED cfgEnv
    /\ ConfigUnchanged

NextConfig ==
    \/ RunAuthConfigLoad
    \/ \E as \in ConfigArgLists : RunPamConfig(as)

SpecConfig == InitConfig /\ [][NextConfig]_vars

MigrationUnchanged ==
    UNCHANGED <<args, sysfs, loaded, models_present, pamVars, now, supVars,
                wrkVars, matchVars, storeVars, enrVars, ui, uiObs, detVars,
                cfgVars, emVars, frame_parity, abandoned>>

InitLegacy ==
    /\ files \in { [d \in DirNames |->
                      IF d = SystemDir THEN sy ELSE IF d = UserDataDir THEN u
                      ELSE DirMissing]
                   : sy \in {DirMissing, Dir(<<>>)},
                     u \in {DirMissing, Dir(<<>>), Dir(<<Version(1)>>)} }
    /\ args = <<>> /\ sysfs = {}
    /\ loaded = AuthConfigOf(FALSE) /\ models_present = TRUE
    /\ AuthIdle /\ MatcherIdle /\ StoreIdle /\ EnrollIdle
    /\ ui = UiInit /\ uiObs = NoCall /\ nodes = NoNodes /\ found = NoneFound
    /\ cfgEnv = NoConfigFiles /\ cfgObs = NothingBuilt
    /\ legacyFiles \in [1..MaxLegacyDirs ->
                           {AbsentFile, CorruptFile(StorageName(Alice)), Version(2)}]
    /\ migObs = NoMigration
    /\ EmitterIdle
    /\ frame_parity = 0 /\ abandoned = NoneAbandoned

\* The enroller calls load_face_data for the user.
RunLoadFaceData ==
    /\ \E io \in SaveOutcomes, writable \in BOOLEAN, removable \in BOOLEAN :
          LET r == LoadFaceDataMigrating(files, legacyFiles, Alice, io, writable,
                                         removable)
          IN /\ files' = r.files
             /\ legacyFiles' = r.legacy
             /\ migObs' = [done |-> TRUE, result |-> r.result, saved |-> r.saved,
                           filesBefore |-> files, legacyBefore |-> legacyFiles]
    /\ MigrationUnchanged

\* The enroller removes the face of the user (delete_face_data).
RunDeleteFaceData ==
    /\ files' = DeleteFaceData(files, Alice)
    /\ migObs' = NoMigration
    /\ UNCHANGED legacyFiles
    /\ MigrationUnchanged

NextLegacy ==
    \/ RunLoadFaceData
    \/ RunDeleteFaceData

SpecLegacy == InitLegacy /\ [][NextLegacy]_vars

EmitterUnchanged ==
    UNCHANGED <<envVars, pamVars, now, supVars, wrkVars, matchVars, storeVars,
                enrVars, ui, uiObs, detVars, cfgVars, migVars, frame_parity, abandoned>>

InitEmitter ==
    /\ files = [d \in DirNames |-> DirMissing]
    /\ args = <<>> /\ sysfs = {}
    /\ loaded = AuthConfigOf(FALSE) /\ models_present = TRUE
    /\ AuthIdle /\ MatcherIdle /\ StoreIdle /\ EnrollIdle
    /\ ui = UiInit /\ uiObs = NoCall /\ nodes = NoNodes /\ found = NoneFound
    /\ cfgEnv = NoConfigFiles /\ cfgObs = NothingBuilt
    /\ legacyFiles = NoLegacyFiles /\ migObs = NoMigration
    /\ emObj = [emitter |-> IrEmitterNew(IrDevice), dropped |-> FALSE]
    /\ emProcs \in SUBSET OrphanProcs
    /\ emObs = NoEmitterCall
    /\ frame_parity = 0 /\ abandoned = NoneAbandoned

EmitterCall(op, r, live) ==
    /\ emObj' = [emObj EXCEPT !.emitter = r.emitter, !.dropped = (op = "drop")]
    /\ emProcs' = r.procs
    /\ emObs' = [op |-> op, before |-> emObj.emitter, procsBefore |-> emProcs,
                 live |-> live,
                 spawned |-> emObs.spawned \/ IsRunning(r.emitter)]
    /\ EmitterUnchanged

\* enable on a value that holds no child.
EmEnable ==
    /\ ~emObj.dropped /\ emObj.emitter.child_process = 0
    /\ \E env \in EmitterEnvs :
          EmitterCall("enable", IrEmitterEnable(emObj.emitter, env, emProcs),
                      emObs.live \/ env = "spawned")

EmDisable ==
    /\ ~emObj.dropped
    /\ EmitterCall("disable", IrEmitterDisable(emObj.emitter, emProcs), FALSE)

EmDrop ==
    /\ ~emObj.dropped
    /\ EmitterCall("drop", IrEmitterDrop(emObj.emitter, emProcs), FALSE)

\* Some other program starts a process of the tool, or a process of the
\* tool ends by itself.
EmOtherProcess ==
    /\ \E p \in OrphanProcs \cup emProcs :
          emProcs' = IF p \in emProcs THEN emProcs \ {p} ELSE emProcs \cup {p}
    /\ emObs' = [emObs EXCEPT !.op = "other", !.before = emObj.emitter,
                              !.procsBefore = emProcs]
    /\ UNCHANGED emObj
    /\ EmitterUnchanged

NextEmitter ==
    \/ EmEnable
    \/ EmDisable
    \/ EmDrop
    \/ EmOtherProcess

SpecEmitter == InitEmitter /\ [][NextEmitter]_vars

(***************************************************************************)
(* Properties.                                                             *)
(***************************************************************************)
Returned == supPc = "done"
TargetName == config.target_user.name

\* The embeddings of a sequence of encoding records.
EmbeddingsOf(records) == { records[i].encoding : i \in 1..Len(records) }
AllBuckets(f) == f.encodings \o f.ir_encodings \o f.rgb_encodings

\* The template files of the store.
StoredTemplates ==
    { f \in UNION { { files[d].files[i] : i \in 1..Len(files[d].files) }
                    : d \in DirNames } : f.kind = "template" }

\* C1: authenticate returns no later than timeout + 500 ms after the call.
C1_ReturnsWithinDeadline ==
    Returned => retTime <= start_time + config.timeout + GraceTicks

Unparsable(as) ==
    \E i \in 1..Len(as) : ~as[i].utf8 \/ (as[i].k = "timeout=" /\ ~as[i].parses)

\* C2: the PAM entry point returns PAM_SUCCESS exactly when authenticate
\* returned Success, PAM_AUTH_ERR on the four other results and on an
\* unparsable argument, PAM_USER_UNKNOWN on an unresolvable user, the last
\* two without running the face authentication.
C2_PamMapping ==
    pamPc = "done" =>
        /\ pamRet = "PAM_SUCCESS" <=> authResult.kind = "Success"
        /\ authResult.kind \in {"NoFaceDetected", "NoMatch", "Timeout", "Error"}
              => pamRet = "PAM_AUTH_ERR"
        /\ Unparsable(args)
              => pamRet = "PAM_AUTH_ERR" /\ wpc = "idle" /\ supPc = "idle"
        /\ (~Unparsable(args) /\ userResolved = "no")
              => pamRet = "PAM_USER_UNKNOWN" /\ wpc = "idle" /\ supPc = "idle"

C2_Witness ==
    /\ pamPc = "done" /\ pamRet = "PAM_SUCCESS"
    /\ authResult.kind = "Success"

\* C3: with target_user set, Success carries the name of the target user and
\* the face matched a template of that user, not only one of another user.
C3_SuccessOnlyForTarget ==
    (Returned /\ authResult.kind = "Success") =>
        /\ authResult.username = TargetName
        /\ \E f \in StoredTemplates :
              /\ f.username = TargetName
              /\ \E e \in EmbeddingsOf(AllBuckets(f)) :
                    /\ FromVecOk(e)
                    /\ Distance(matchedProbe, e) <= RgbTolerance

\* C4: when the store holds no template of the target user, authenticate
\* never returns Error.
C4_NoTemplateNeverError ==
    (Returned /\ authResult.kind = "Error") =>
        \E f \in StoredTemplates : f.username = TargetName

C6_SupervisorOutcomes ==
    LET hard == start_time + config.timeout + GraceTicks
    IN Returned =>
        /\ (wpc = "done" /\ endedAt < hard)
              => authResult = wResult /\ sweeps = 0
        /\ (wpc = "panicked" /\ endedAt < hard)
              => authResult = Result("Error", "Internal error") /\ sweeps = 1
        /\ (endedAt = -1 \/ endedAt > hard)
              => authResult = Result("Timeout", "") /\ sweeps = 1 /\ retTime >= hard

C6_Witness ==
    /\ Returned /\ wpc = "panicked" /\ endedAt < start_time + config.timeout + 1
    /\ authResult.kind = "Error" /\ sweeps = 1

\* The embeddings the worker compares a probe with for a user.
ComparedWith(username) ==
    UNION { { registered_faces[i].encodings[k]
              : k \in 1..Len(registered_faces[i].encodings) }
            : i \in { j \in 1..Len(registered_faces)
                      : registered_faces[j].username = username } }

\* The directory whose templates the worker reads: the first of data_dir, the
\* XDG directory, the configuration directory and the system directory that
\* holds a template file.
TemplateDirs ==
    SelectSeq(<<config.data_dir, XdgDir, UserConfigDir, SystemDir>>,
              LAMBDA d : files[d].exists /\ files[d].files # <<>>)

\* C7: for every template of the directory read, the embeddings compared
\* for its user are those of the three buckets of the template.
C7_AllBucketsCompared ==
    (wpc \in {"camera", "frames", "done"} /\ TemplateDirs # <<>>) =>
        \A i \in 1..Len(files[Head(TemplateDirs)].files) :
            LET f == files[Head(TemplateDirs)].files[i]
            IN f.kind = "template" =>
                  ComparedWith(UsernameOfEntry(f.name)) = EmbeddingsOf(AllBuckets(f))

ValidDistances(probe, uf) ==
    { Distance(probe, uf.encodings[k]) :
        k \in { n \in 1..Len(uf.encodings) : FromVecOk(uf.encodings[n]) } }
Within(probe, uf, tolerance) == \E d \in ValidDistances(probe, uf) : d <= tolerance
Smallest(S) == CHOOSE d \in S : \A e \in S : d <= e

\* C8: match_face returns None exactly when no user has a template within
\* the tolerance; otherwise the user with the smallest distance, the first
\* such user of the list, and that distance.
C8_MatchFace ==
    mPc = "done" =>
        /\ ~mResult.some <=> \A i \in 1..Len(mUsers) : ~Within(mProbe, mUsers[i], mTolerance)
        /\ mResult.some =>
              \E i \in 1..Len(mUsers) :
                 /\ mUsers[i].username = mResult.username
                 /\ Within(mProbe, mUsers[i], mTolerance)
                 /\ mResult.distance = Smallest(ValidDistances(mProbe, mUsers[i]))
                 /\ \A j \in 1..Len(mUsers) :
                       Within(mProbe, mUsers[j], mTolerance) =>
                          LET dj == Smallest(ValidDistances(mProbe, mUsers[j]))
                          IN /\ dj >= mResult.distance
                             /\ dj = mResult.distance => i <= j

C8_Witness ==
    /\ mPc = "done" /\ mResult.some /\ Len(mUsers) = 2
    /\ mResult.username = mUsers[1].username
    /\ Within(mProbe, mUsers[2], mTolerance)
    /\ Smallest(ValidDistances(mProbe, mUsers[2])) = mResult.distance

KindOf(id) == (CHOOSE c \in sysfs : c.device_id = id).camera_type
KindRank(kind) ==
    IF kind = "Unknown" THEN 3
    ELSE IF (kind = "Infrared") = config.prefer_ir THEN 1 ELSE 2
OpensOf(evs) == { i \in 1..Len(evs) : evs[i].ev = "open" }
\* The position of a camera in the enumeration the worker was given.
EnumPos(id) ==
    CHOOSE k \in 1..Len(DetectCamerasFast(sysfs)) :
        DetectCamerasFast(sysfs)[k].device_id = id

\* The cameras are opened in the order of their kinds, in the order of the
\* enumeration inside a kind, and a camera is opened only after every camera
\* opened before it was released.
C9_OrderOfOpens ==
    \A i, j \in OpensOf(events) :
        i < j =>
           /\ \/ KindRank(KindOf(events[i].id)) < KindRank(KindOf(events[j].id))
              \/ /\ KindOf(events[i].id) = KindOf(events[j].id)
                 /\ EnumPos(events[i].id) < EnumPos(events[j].id)
           /\ \E k \in (i + 1)..(j - 1) :
                 events[k] = Ev("release", events[i].id)

\* C9: cameras are tried one at a time in the order preferred kind, other
\* kind, Unknown; once a frame matched, no frame is read and no camera is
\* opened any more.
C9_CameraOrder ==
    /\ []C9_OrderOfOpens
    /\ [][wResult.kind = "Success" =>
             /\ frames' = frames
             /\ consecutive_failures' = consecutive_failures
             /\ events' = events
             /\ wpc' = "done"]_vars

C9_Witness ==
    /\ ~config.prefer_ir
    /\ wResult.kind = "Success"
    /\ Cardinality(OpensOf(events)) = 3

\* C10: when the worker returns, every camera was released before the
\* emitter was disabled.
C10_CameraReleasedBeforeEmitter ==
    wpc = "done" =>
        \A i, j \in 1..Len(events) :
            (events[i].ev = "emitter_off" /\ events[j].ev = "release") => j < i

C12_DeviceErrorsGiveNoMatch ==
    (Returned /\ wpc = "done" /\ registered_faces # <<>>) =>
        authResult.kind # "Error"

\* C13: a worker that leaves the loop over the cameras on the deadline, a
\* camera still to be tried and no face matched, returns Timeout.
C13_DeadlineGivesTimeout ==
    (/\ wpc = "done"
     /\ sorted_cameras # <<>>
     /\ camIdx <= Len(sorted_cameras)
     /\ wResult.kind # "Success") => wResult.kind = "Timeout"


\* C14: save_face_data replaces the template file atomically: a reader that
\* reads alice.json while a save is in progress sees the complete old or the
\* complete new content, never an empty or partly written file.
C14_ReaderNeverSeesTornFile ==
    authObs.done =>
        /\ authObs.userCopy.kind # "corrupt"
        /\ authObs.read.ok

\* C15: after delete_face_data no template of the user remains:
\* load_face_data returns None until the next save, also when an earlier save
\* had mirrored the template to the system directory.
C15_DeleteLeavesNoTemplate ==
    (loadObs.done /\ loadObs.afterDelete) => ~loadObs.result.some

FacesOfUser(faces, username) ==
    SelectSeq(faces, LAMBDA e : e.username = username)

\* C16: whenever a template of the user exists in the user data directory,
\* that copy is the one read, by load_face_data of the enroller and by
\* load_registered_faces of the authenticator.
C16_UserCopyAuthoritative ==
    /\ (loadObs.done /\ loadObs.userCopy.kind = "template") =>
          loadObs.result = SomeData(loadObs.userCopy)
    /\ (authObs.done /\ authObs.userCopy.kind = "template") =>
          FacesOfUser(authObs.faces, Alice) =
              FacesOfUser(LoadAllFaces(Dir(<<authObs.userCopy>>)).faces, Alice)

\* C17: with an IR and an RGB camera the RGB capture starts only after the IR
\* embedding was captured, from the switch on no frame of the IR camera is
\* processed, and every embedding in rgb_encodings was computed from a frame
\* of the RGB camera.
C17_RgbOnlyFromRgbFrames ==
    /\ (hw.ir /\ win.is_capturing /\ win.current_camera_type = "rgb") =>
          win.ir_encodings # <<>>
    /\ ~hist.irAfterSwitch
    /\ \A i \in 1..Len(win.rgb_encodings) :
          win.rgb_encodings[i].encoding = RgbEmbedding

\* C18: after cancel_capture the consumer of a cancelled preview processes no
\* further frame, also when a new capture is started right after the cancel.
C18_NoFrameAfterCancel == ~hist.late

\* C19: cancelling a capture writes nothing: after cancel_capture the store
\* (user copy and system mirror) is what it was when the session started.
C19_CancelWritesNothing ==
    hist.sessionEnd = "cancelled" => files = hist.diskAtStart

C19_Witness ==
    /\ hist.sessionEnd = "cancelled"
    /\ win.ir_encodings # <<>>
    /\ FileOf(files[UserDataDir], StorageName(Alice)).kind = "template"

\* C20: on Add Face with the models loaded the capture starts on the IR
\* camera if there is one, else on the RGB camera if there is one; with no
\* camera no capture session is started: is_capturing stays false and no
\* producer thread is spawned.
C20_AddFaceChoosesCamera ==
    /\ previews # <<>> =>
          /\ hw.ir \/ hw.rgb
          /\ previews[1].camera = IF hw.ir THEN "ir" ELSE "rgb"
    /\ (hw.models /\ ~hw.ir /\ ~hw.rgb) =>
          (~win.is_capturing /\ previews = <<>> /\ win.page = "main")

SavedTemplate == FileOf(files[UserDataDir], StorageName(Alice))

BucketHolds(bucket, n, ct) ==
    /\ Len(bucket) = n
    /\ \A i \in 1..Len(bucket) :
          bucket[i].pose = "center" /\ bucket[i].camera_type = ct

PriorTemplate == FileOf(hist.diskAtStart[UserDataDir], StorageName(Alice))

\* C22: a save for a user who already has a template keeps the created_at of
\* that template, and no saved template has updated_at before created_at.
C22_CreatedAtPreserved ==
    /\ (save.stage # "idle" /\ PriorTemplate.kind = "template") =>
          save.data.created_at = PriorTemplate.created_at
    /\ \A d \in {UserDataDir, SystemDir} :
          \A i \in 1..Len(files[d].files) :
             files[d].files[i].kind = "template" =>
                files[d].files[i].updated_at >= files[d].files[i].created_at

GuidanceShown(u) == <<u.lbl_guidance, u.guidance_class>>

\* C23: update_guidance changes the displayed guidance (text and style) only
\* on the second consecutive call with the same text; a call with another
\* text only records it and sets the counter to 1; the guidance displayed is
\* a text requested in two consecutive updates (or the empty text the label
\* is built with).
C23_GuidanceStep ==
    /\ GuidanceShown(ui') # GuidanceShown(ui) =>
          /\ uiObs'.fn = "update_guidance"
          /\ uiObs'.run = 2
          /\ GuidanceShown(ui') = <<uiObs'.text, uiObs'.style>>
    /\ (uiObs'.fn = "update_guidance" /\ uiObs'.text # ui.last_guidance) =>
          /\ ui'.last_guidance = uiObs'.text
          /\ ui'.guidance_stable_frames = 1
          /\ GuidanceShown(ui') = GuidanceShown(ui)
    /\ (uiObs'.fn = "update_guidance" /\ uiObs'.run = 2) =>
          GuidanceShown(ui') = <<uiObs'.text, uiObs'.style>>

C23_GuidanceDebounced ==
    /\ [](ui.lbl_guidance = "" \/ ui.lbl_guidance \in uiObs.twice)
    /\ [][C23_GuidanceStep]_vars

C23_Witness ==
    /\ uiObs.fn = "update_guidance"
    /\ uiObs.run = 2
    /\ ui.lbl_guidance = uiObs.text
    /\ Cardinality(uiObs.twice) = 2

TitleShown(u) == <<u.lbl_capture_title, u.face_found, u.last_status>>

\* C24: set_capture_status with the last applied title increments the
\* stability counter; with another title it is applied (display and last
\* applied title) only if the previous title was stable for at least 2 frames
\* or was empty; otherwise the counter is reset and the display is left
\* unchanged.
C24_StatusStep ==
    uiObs'.fn = "set_capture_status" =>
       IF uiObs'.text = ui.last_status
       THEN /\ ui'.status_stable_frames = ui.status_stable_frames + 1
            /\ TitleShown(ui') = TitleShown(ui)
       ELSE IF ui.status_stable_frames >= 2 \/ ui.last_status = ""
       THEN TitleShown(ui') = <<uiObs'.text, uiObs'.face_found, uiObs'.text>>
       ELSE /\ ui'.status_stable_frames = 0
            /\ TitleShown(ui') = TitleShown(ui)

C24_StatusDebounced == [][C24_StatusStep]_vars

C24_Witness ==
    /\ uiObs.fn = "set_capture_status"
    /\ ui.last_status # ""
    /\ uiObs.text # ui.last_status
    /\ ui.status_stable_frames = 0
\* C25: on each frame process_frame looks at while capturing, no face sets
\* consecutive_good_frames to 0, a face without an embedding (models loaded)
\* lowers it by one and never below 0, a face with an embedding raises it by
\* one; on_pose_captured stores a record only on a frame with an embedding at
\* which the raised counter is at least RequiredGoodFrames, and the record
\* holds that frame's embedding; the counter never exceeds RequiredGoodFrames.
RecordCount(w) == Len(w.ir_encodings) + Len(w.rgb_encodings)

LastRecord(w, cam) ==
    IF cam = "ir" THEN w.ir_encodings[Len(w.ir_encodings)]
    ELSE w.rgb_encodings[Len(w.rgb_encodings)]

C25_FrameStep ==
    (/\ uiObs' # uiObs
     /\ uiObs'.fn = "process_frame"
     /\ (win.frame_count + 1) % 2 = 0)
    => LET g == win.consecutive_good_frames
           face == uiObs'.text
           fired == RecordCount(win') = RecordCount(win) + 1
       IN /\ face = "none" => win'.consecutive_good_frames = 0 /\ ~fired
          /\ (face = "noenc" /\ hw.models) =>
                /\ win'.consecutive_good_frames = IF g > 0 THEN g - 1 ELSE 0
                /\ ~fired
          /\ face = "good" =>
                /\ fired <=> g + 1 >= RequiredGoodFrames
                /\ ~fired => win'.consecutive_good_frames = g + 1
                /\ fired =>
                      /\ win'.consecutive_good_frames \in {0, g + 1}
                      /\ LastRecord(win', win.current_camera_type).encoding
                            = EncodingOf(Frame(uiObs'.style))

C25_GoodFrameCounter ==
    /\ [](win.consecutive_good_frames <= RequiredGoodFrames)
    /\ [][C25_FrameStep]_vars

C25_Witness ==
    /\ uiObs.fn = "process_frame"
    /\ uiObs.text = "good"
    /\ win.consecutive_good_frames = 0
    /\ Len(win.ir_encodings) = 1
    /\ win.current_camera_type = "rgb"
    /\ win.is_capturing

\* C27: in the enroller a device is never opened by a second handle while a
\* camera thread holds it: the probing of on_pose_captured and of start_capture
\* (detect_ir_camera, detect_rgb_camera) and the start of a new preview happen
\* only when no producer holds the device they open.
PoseCapturedStep == RecordCount(win') = RecordCount(win) + 1

StartCaptureStep == win.page = "main" /\ win'.page = "capture"

PreviewStartStep == Len(previews') = Len(previews) + 1

C27_OpenStep ==
    /\ (PoseCapturedStep \/ StartCaptureStep)
          => ProbedDevices(hw) \cap HeldDevices(previews) = {}
    /\ PreviewStartStep
          => previews'[Len(previews')].camera \notin HeldDevices(previews)

C27_NoSecondHandle == [][C27_OpenStep]_vars

\* C26: camera enumeration (detect_all_cameras of the enroller and
\* is_capture_device of the authenticator) never returns a video node whose
\* sysfs index attribute exists and holds a non-zero number, and a node
\* without an index attribute that opens and reads is returned.
NodesReturned == { found.ids[i] : i \in DOMAIN found.ids }

Asked ==
    IF found.by = "detect_all_cameras" THEN NodeIds
    ELSE IF found.by = "is_capture_device" THEN {found.device_id}
    ELSE {}

C26_IndexFilter ==
    /\ \A id \in NodesReturned : ~(nodes[id].has_index /\ nodes[id].index # 0)
    /\ \A id \in Asked :
          (~nodes[id].has_index /\ nodes[id].opens) => id \in NodesReturned

C26_Witness ==
    /\ found.by = "detect_all_cameras"
    /\ \E id \in NodeIds :
          nodes[id].has_index /\ nodes[id].index = 10 * MaxIndex /\ nodes[id].opens
    /\ \E id \in NodesReturned : ~nodes[id].has_index

\* C28: per camera the frame loop reads at most max_frames_per_camera frames
\* successfully and gives the camera up as soon as MaxConsecutiveFailures
\* reads in a row have failed; a successful read sets the failure count to 0,
\* a failed read raises it by one, and the camera is given up only on the
\* deadline, on the frame limit or on MaxConsecutiveFailures failures in a row.
InFrameLoop == wpc \in {"frames", "blocked"}

C28_LoopStep ==
    wpc = "frames" =>
      /\ frames' = frames + 1 =>
            /\ consecutive_failures' = 0
            /\ frames < config.max_frames_per_camera
            /\ consecutive_failures < MaxConsecutiveFailures
      /\ consecutive_failures' = consecutive_failures + 1 =>
            /\ frames' = frames
            /\ consecutive_failures < MaxConsecutiveFailures
      /\ wpc' = "camera" =>
            \/ TimedOut
            \/ frames >= config.max_frames_per_camera
            \/ consecutive_failures >= MaxConsecutiveFailures
      /\ (consecutive_failures >= MaxConsecutiveFailures /\ wpc' # wpc) =>
            wpc' \in {"camera", "panicked"}

C28_FrameLoopLimits ==
    /\ [](InFrameLoop =>
            /\ frames <= config.max_frames_per_camera
            /\ consecutive_failures <= MaxConsecutiveFailures)
    /\ [][C28_LoopStep]_vars

C28_Witness ==
    /\ wpc = "frames"
    /\ frames = 1
    /\ frames < config.max_frames_per_camera
    /\ consecutive_failures = MaxConsecutiveFailures
    /\ ~TimedOut

\* The camera that delivered the matching frame, and the smallest distance of
\* the matched probe to the embeddings compared for the user returned.
MatchCamera == sorted_cameras[camIdx]

MatchDistances ==
    { Distance(matchedProbe, e) :
        e \in { x \in ComparedWith(wResult.username) : FromVecOk(x) } }

MatchDistance == CHOOSE d \in MatchDistances : \A o \in MatchDistances : d <= o

ToleranceOfKind(kind) ==
    IF kind = "Infrared" THEN config.ir_tolerance ELSE config.rgb_tolerance

\* C29 as stated: a probe from a camera of kind IR is accepted only within
\* ir_tolerance and a probe from any other camera only within rgb_tolerance;
\* on Success confidence is 1 minus that distance and camera_type is the kind
\* of the camera that delivered the frame.
C29_ToleranceByKind ==
    wResult.kind = "Success" =>
        /\ MatchDistances # {}
        /\ MatchDistance <= ToleranceOfKind(MatchCamera.camera_type)
        /\ wResult.confidence = ConfidenceOne - MatchDistance
        /\ wResult.camera_type = MatchCamera.camera_type

\* C29 amended: as above, but camera_type is Infrared for a camera of kind IR
\* and Rgb for every other camera, a camera of kind Unknown included.
C29_ToleranceByKindTwoTypes ==
    wResult.kind = "Success" =>
        /\ MatchDistances # {}
        /\ MatchDistance <= ToleranceOfKind(MatchCamera.camera_type)
        /\ wResult.confidence = ConfidenceOne - MatchDistance
        /\ wResult.camera_type =
              IF MatchCamera.camera_type = "Infrared" THEN "Infrared" ELSE "Rgb"

C29_Witness ==
    /\ wResult.kind = "Success"
    /\ MatchCamera.camera_type = "Unknown"
    /\ MatchDistances # {}
    /\ MatchDistance = config.rgb_tolerance
    /\ wResult.camera_type = "Rgb"

\* The blocking steps of the worker: the load of the templates, the opening
\* of a camera, the read of a frame.
TemplatesLoadedStep == wpc = "load" /\ wpc' \in {"camera", "done"}

CameraOpenedStep ==
    \E i \in (Len(events) + 1)..Len(events') : events'[i].ev = "open"

FrameReadStep ==
    /\ wpc = "frames"
    /\ \/ frames' = frames + 1
       \/ consecutive_failures' = consecutive_failures + 1
       \/ wpc' = "blocked"

\* C30: the worker checks the deadline before every blocking step: once a
\* config.timeout above 0 has elapsed since it started, it loads no template, opens no
\* camera and reads no frame any more, and its next step ends it or gives up
\* the camera it holds.
C30_DeadlineStep ==
    (wpc \in {"load", "camera", "frames"} /\ config.timeout > 0 /\ TimedOut) =>
        /\ ~TemplatesLoadedStep
        /\ ~CameraOpenedStep
        /\ ~FrameReadStep
        /\ wpc' # wpc => wpc' \in {"done", "camera", "panicked"}

C30_DeadlineBeforeBlocking == [][C30_DeadlineStep]_vars

\* The settings a configuration carries from a file.
SettingsOf(c) == [enabled |-> c.enable_ir_emitter, ir_tolerance |-> c.ir_tolerance]

FileSettings(file) ==
    [enabled |-> file.settings.enabled, ir_tolerance |-> file.settings.ir_tolerance]

UserFileUsable == cfgEnv.home /\ cfgEnv.fs[UserConfigFile].kind = "valid"

UserFileThere == cfgEnv.home /\ cfgEnv.fs[UserConfigFile].kind # "absent"

\* C31: AuthConfig::load takes the settings from the user configuration file
\* when it exists, otherwise from /etc/glance/config.json when that exists,
\* otherwise the defaults.
C31_UserThenSystem ==
    cfgObs.by = "load" =>
        /\ UserFileUsable =>
              SettingsOf(cfgObs.config) = FileSettings(cfgEnv.fs[UserConfigFile])
        /\ (~UserFileThere /\ cfgEnv.fs[SystemConfigFile].kind = "valid") =>
              SettingsOf(cfgObs.config) = FileSettings(cfgEnv.fs[SystemConfigFile])
        /\ (~UserFileThere /\ cfgEnv.fs[SystemConfigFile].kind = "absent") =>
              SettingsOf(cfgObs.config) = SettingsOf(AuthConfigOf(TRUE))

\* The file the config= argument of the module names, if any.
NamedConfigFile(as) == ParseArgs(as).config.config_file

\* C32: when the PAM configuration line carries config=<path>, the settings
\* of the invocation are those of the file at that path.
C32_ConfigArgumentUsed ==
    (/\ cfgObs.by = "pam"
     /\ NamedConfigFile(cfgObs.as) \in ConfigPaths
     /\ NamedConfigFile(cfgObs.as) # UserConfigFile
     /\ cfgEnv.fs[NamedConfigFile(cfgObs.as)].kind = "valid")
    => SettingsOf(cfgObs.config)
         = FileSettings(cfgEnv.fs[NamedConfigFile(cfgObs.as)])

\* The template files of the user in the user directory and in the system
\* directory.
CopiesOf(fs) ==
    <<FileOf(fs[UserDataDir], StorageName(Alice)),
      FileOf(fs[SystemDir], StorageName(Alice))>>

\* The first legacy file that parses, at the time of the load.
FirstLegacy ==
    LET lg == migObs.legacyBefore
        k == CHOOSE i \in 1..Len(lg) :
               /\ lg[i].kind # "absent" /\ FaceDataParses(lg[i])
               /\ \A j \in 1..(i - 1) : ~(lg[j].kind # "absent" /\ FaceDataParses(lg[j]))
    IN [at |-> k, file |-> lg[k]]

MigrationTried ==
    /\ migObs.done
    /\ CopiesOf(migObs.filesBefore) = <<AbsentFile, AbsentFile>>
    /\ \E i \in 1..Len(migObs.legacyBefore) :
          migObs.legacyBefore[i].kind # "absent" /\ FaceDataParses(migObs.legacyBefore[i])

\* C33: legacy migration is best-effort: the legacy file is removed only
\* after the record was saved to the user directory; if the save fails the
\* legacy file is left intact and no template file is changed; in both cases
\* the loaded record is returned.
C33_MigrationBestEffort ==
    MigrationTried =>
        /\ migObs.result = SomeData(FirstLegacy.file)
        /\ legacyFiles # migObs.legacyBefore =>
              /\ migObs.saved
              /\ CopiesOf(files)[1] = FirstLegacy.file
        /\ ~migObs.saved =>
              /\ legacyFiles = migObs.legacyBefore
              /\ CopiesOf(files) = CopiesOf(migObs.filesBefore)

\* The worker enables the emitter and no process of the tool is started.
EnableWithoutToolStep ==
    /\ wpc = "start" /\ wpc' = "load"
    /\ config.enable_ir_emitter
    /\ procs' = procs

C34_EnableSkips ==
    \A env \in {"not_installed", "spawn_failed"} :
        LET r == IrEmitterEnable(IrEmitterNew(config.ir_device), env, procs)
        IN r.ok /\ ~IsRunning(r.emitter) /\ r.procs = procs

C34_WorkerGoesOn ==
    EnableWithoutToolStep =>
        /\ ir_emitter' = NoEmitter
        /\ wResult' = wResult /\ chan' = chan /\ events' = events

\* C34: enable returns Ok with is_running() false when the tool is not
\* installed or cannot be spawned, and the worker then goes on to the
\* templates and the cameras without an emitter instead of failing.
C34_EmitterOptional ==
    /\ []C34_EnableSkips
    /\ [][C34_WorkerGoesOn]_vars

\* The emitter was asked for, no tool was started, and a camera is open.
C34_Witness ==
    /\ config.enable_ir_emitter
    /\ ir_emitter = NoEmitter /\ procs = {}
    /\ \A i \in 1..Len(events) : events[i].ev # "emitter_on"
    /\ camera # NoCamera

WorkerRunning == wpc \in {"start", "load", "camera", "frames"}

\* C36: when every read and every detection returns, the worker terminates
\* whatever the clock does: no frame loop runs for ever by alternating failed
\* and successful reads.
C36_WorkerTerminates == WorkerRunning ~> (wpc = "done")

\* A frame loop in which a read failed after a frame was delivered.
C36_Witness ==
    /\ wpc = "frames" /\ ~TimedOut
    /\ frames > 0 /\ consecutive_failures > 0

\* Every update from here on calls set_capture_status with the title.
CalledWith(title) ==
    (frame_parity = 1 /\ frame_parity' = 0) =>
        uiObs'.fn = "set_capture_status" /\ uiObs'.text = title

\* C37: if from some update on set_capture_status is called with the same
\* title on every update, the displayed capture title eventually equals that
\* title.
C37_TitleEventuallyShown ==
    \A st \in Statuses :
        <>[][CalledWith(st.title)]_vars => <>(ui.lbl_capture_title = st.title)

BucketEmbeddings(bucket) == { bucket[i].encoding : i \in 1..Len(bucket) }

\* C38: the legacy encodings bucket of a saved template holds a copy of every
\* embedding captured in the session, each with camera_type "": the IR
\* embedding when only an IR camera exists, the IR and the RGB embedding when
\* both cameras exist.
C38_LegacyHoldsEveryCapture ==
    hist.sessionEnd = "saved" =>
        /\ \A i \in 1..Len(SavedTemplate.encodings) :
              SavedTemplate.encodings[i].camera_type = ""
        /\ BucketEmbeddings(SavedTemplate.encodings)
              = BucketEmbeddings(SavedTemplate.ir_encodings)
                  \cup BucketEmbeddings(SavedTemplate.rgb_encodings)
        /\ Len(SavedTemplate.encodings)
              = Len(SavedTemplate.ir_encodings) + Len(SavedTemplate.rgb_encodings)

\* authenticate with target_user = alice and the default data_dir can return
\* Success: some face in front of the IR camera matches a template it loads.
CanAuthenticateAlice ==
    LET r == LoadRegisteredFaces(PamConfigDefault.data_dir, files)
        faces == IF r.ok THEN r.faces ELSE <<>>
        cfg == AuthConfigForPam(AuthConfigOf(TRUE), PamConfigDefault, Alice)
    IN \E p \in Probes :
          FirstMatch(<<p>>, FacesToCheck(faces, cfg.target_user),
                     EffectiveTolerance(cfg, OpenDirect(Cam(2, "Infrared")))).some

\* C39: once delete_face_data(u) has succeeded, authenticate with
\* target_user = u does not return Success until u enrolls again.
C39_DeletedUserNotAuthenticated ==
    (hist.deleted /\ save.stage = "idle") => ~CanAuthenticateAlice

HeldByAbandoned == { a.device_id : a \in abandoned.held }

\* C40: across successive authenticate calls in one process at most one
\* worker holds a camera open at any time: a worker abandoned by a hard
\* timeout has released its camera before a later call opens that camera.
C40_OneCameraHolder ==
    /\ camera # NoCamera => camera.device_id \notin HeldByAbandoned
    /\ \A a, b \in abandoned.held : a.device_id = b.device_id => a = b

====
